---------------------------- MODULE Spec2Model ----------------------------
(***************************************************************************)
(* Model of the reconciliation engine of AddressExtractor/backend_db.py:   *)
(* hash-gated ingestion of per-document fact files into the entity store   *)
(* (documents, extractions, patients, practitioners and the two link       *)
(* tables), one transaction per document.                                  *)
(*                                                                         *)
(* Conventions.  A Python str is a sequence of one-character strings.      *)
(* Python None / SQL NULL of a text value is None; a missing integer id is *)
(* NoId.  A dict is a function whose DOMAIN is its set of keys.  All       *)
(* timestamps taken during one batch run compare equal and are the number  *)
(* of that run.                                                            *)
(***************************************************************************)
EXTENDS Integers, Sequences, FiniteSets, TLC

VARIABLES
    files,      \* the *.json files of the directory: document_id -> content
    db,         \* the committed store
    tx,         \* the store as the open connection sees it
    pc,         \* "idle" | "scan" (inside ingest_directory) | "tx" (inside try:)
    cur,        \* position of ingest_directory's for loop in json_files
    loc,        \* the locals of _ingest_file, kept until the next file is visited
    stats,      \* ingest_directory's stats dict
    log,        \* what this run returned or raised per visited file
    run,        \* number of batch runs started
    edits,      \* number of file rewrites so far
    ingested,   \* history: document_id -> the content its last commit ingested
    ovIn,       \* override resolution on its own: the overrides list
    ovPage,     \* override resolution on its own: the page
    ovOut,      \* override resolution on its own: the effective values
    nmIn,       \* normalize_name on its own: the name
    nmOut,      \* normalize_name on its own: the value returned
    fzIn,       \* GPFuzzySearch.search: the arguments
    fzOut,      \* GPFuzzySearch.search: what the call returned or raised
    extracted_addresses,    \* GPMatcher: the rows of the extraction table
    gm          \* GPMatcher: position and locals of auto_match_all

vars == <<files, db, tx, pc, cur, loc, stats, log, run, edits, ingested, ovIn, ovPage, ovOut, nmIn, nmOut, fzIn, fzOut, extracted_addresses, gm>>
ingestVars == <<files, db, tx, pc, cur, loc, stats, log, run, edits, ingested>>
ovVars == <<ovIn, ovPage, ovOut>>
nmVars == <<nmIn, nmOut>>
fzVars == <<fzIn, fzOut>>
gmVars == <<extracted_addresses, gm>>

-----------------------------------------------------------------------------
(* Bounds of the model *)

MaxRuns == 2
MaxEdits == 1
MaxOverrides == 3

-----------------------------------------------------------------------------
(* Values *)

None == <<"None">>
NoId == 0
EmptyDict == [k \in {} |-> None]

Get(d, k) == IF k \in DOMAIN d THEN d[k] ELSE None

\* Python truthiness of an optional str / of an optional dict
TruthyStr(s) == s # None /\ s # <<>>
TruthyDict(d) == DOMAIN d # {}

UpperCase == <<"A","B","C","D","E","F","G","H","I","J","K","L","M",
               "N","O","P","Q","R","S","T","U","V","W","X","Y","Z">>
LowerCase == <<"a","b","c","d","e","f","g","h","i","j","k","l","m",
               "n","o","p","q","r","s","t","u","v","w","x","y","z">>
Digits == <<"0","1","2","3","4","5","6","7","8","9">>

Range(s) == {s[i] : i \in DOMAIN s}

IsSpace(c) == c = " "
IsLowerAlpha(c) == c \in Range(LowerCase)
IsWordChar(c) == c \in Range(LowerCase) \cup Range(UpperCase) \cup Range(Digits) \cup {"_"}

LowerChar(c) ==
    IF c \in Range(UpperCase)
    THEN LowerCase[CHOOSE i \in DOMAIN UpperCase : UpperCase[i] = c]
    ELSE c

lower(s) == [i \in DOMAIN s |-> LowerChar(s[i])]

UpperChar(c) ==
    IF c \in Range(LowerCase)
    THEN UpperCase[CHOOSE i \in DOMAIN LowerCase : LowerCase[i] = c]
    ELSE c

upper(s) == [i \in DOMAIN s |-> UpperChar(s[i])]

RECURSIVE lstrip(_)
lstrip(s) == IF s # <<>> /\ IsSpace(Head(s)) THEN lstrip(Tail(s)) ELSE s

RECURSIVE rstrip(_)
rstrip(s) ==
    IF s # <<>> /\ IsSpace(s[Len(s)]) THEN rstrip(SubSeq(s, 1, Len(s) - 1)) ELSE s

strip(s) == rstrip(lstrip(s))

\* `val and val.strip()`
NonBlank(s) == TruthyStr(s) /\ strip(s) # <<>>

\* Code points of the characters that occur in dates, in increasing order
AsciiOrder == <<" ", "-", "0","1","2","3","4","5","6","7","8","9">>
Ord(c) == CHOOSE i \in DOMAIN AsciiOrder : AsciiOrder[i] = c

\* Python's a > b on str
RECURSIVE StrGreater(_, _)
StrGreater(a, b) ==
    IF a = <<>> THEN FALSE
    ELSE IF b = <<>> THEN TRUE
    ELSE IF Head(a) = Head(b) THEN StrGreater(Tail(a), Tail(b))
    ELSE Ord(Head(a)) > Ord(Head(b))

-----------------------------------------------------------------------------
(* normalize_name *)

TITLES == <<
    <<"m","r">>, <<"m","r","s">>, <<"m","s">>, <<"m","i","s","s">>,
    <<"d","r">>, <<"p","r","o","f">>, <<"p","r","o","f","e","s","s","o","r">>,
    <<"s","i","r">>, <<"d","a","m","e">>, <<"l","o","r","d">>,
    <<"l","a","d","y">>, <<"r","e","v">>, <<"r","e","v","e","r","e","n","d">> >>

IsPrefix(t, s) == Len(t) <= Len(s) /\ SubSeq(s, 1, Len(t)) = t

\* ^(mr|mrs|...)\b : the alternative matches when the text starts with it
\* (re.IGNORECASE) and a word boundary follows
TitleMatches(t, s) ==
    /\ IsPrefix(t, lower(s))
    /\ (Len(s) = Len(t) \/ ~IsWordChar(s[Len(t) + 1]))

\* TITLE_PATTERNS.sub("", n): the single match at the start of the text, with
\* the optional period and the whitespace after it, is removed
StripTitle(s) ==
    IF \E i \in DOMAIN TITLES : TitleMatches(TITLES[i], s)
    THEN LET i == CHOOSE j \in DOMAIN TITLES : TitleMatches(TITLES[j], s)
             afterTitle == SubSeq(s, Len(TITLES[i]) + 1, Len(s))
             afterDot == IF afterTitle # <<>> /\ Head(afterTitle) = "."
                         THEN Tail(afterTitle) ELSE afterTitle
         IN lstrip(afterDot)
    ELSE s

\* re.sub(r"[^a-z\s\-']", "", n)
KeepChar(c) == IsLowerAlpha(c) \/ IsSpace(c) \/ c = "-" \/ c = "'"
RemoveNonAlpha(s) == SelectSeq(s, KeepChar)

\* re.sub(r"\s+", " ", n)
RECURSIVE CollapseSpaces(_)
CollapseSpaces(s) ==
    IF s = <<>> THEN <<>>
    ELSE IF IsSpace(Head(s))
         THEN <<" ">> \o CollapseSpaces(lstrip(s))
         ELSE <<Head(s)>> \o CollapseSpaces(Tail(s))

normalize_name(name) ==
    IF ~TruthyStr(name) THEN <<>>
    ELSE strip(CollapseSpaces(RemoveNonAlpha(StripTitle(strip(lower(name))))))

-----------------------------------------------------------------------------
(* Entity resolution *)

Min(S) == CHOOSE m \in S : \A n \in S : m <= n

\* (column of patients, key of the page's address dict)
PatientAddressFields == <<
    <<"address_line_1", "line_1">>, <<"address_line_2", "line_2">>,
    <<"city", "city">>, <<"county", "county">>, <<"postcode", "postcode">>,
    <<"postcode_district", "postcode_district">> >>

\* (column of patients, key of the patient's phones dict)
PatientPhoneFields == <<
    <<"phone_home", "home">>, <<"phone_work", "work">>, <<"phone_mobile", "mobile">> >>

\* Variant: an observation without a date of birth matches no row
MatchPatientOnlyByDob(patients, name_norm, date_of_birth) ==
    IF NonBlank(date_of_birth)
    THEN LET m == {i \in DOMAIN patients :
                      /\ patients[i].full_name_normalized = name_norm
                      /\ patients[i].date_of_birth = date_of_birth}
         IN IF m = {} THEN NoId ELSE Min(m)
    ELSE NoId

\* Variant: the date of birth never compares equal, only the lone-name rule matches
MatchPatientDobNeverEqual(patients, name_norm, date_of_birth) ==
    IF NonBlank(date_of_birth) THEN NoId
    ELSE LET m == {i \in DOMAIN patients : patients[i].full_name_normalized = name_norm}
         IN IF Cardinality(m) = 1 THEN Min(m) ELSE NoId

\* Variant: without a date of birth the first row of the name matches, however
\* many there are
MatchPatientFirstOfMany(patients, name_norm, date_of_birth) ==
    LET m == {i \in DOMAIN patients :
                 /\ patients[i].full_name_normalized = name_norm
                 /\ NonBlank(date_of_birth) => patients[i].date_of_birth = date_of_birth}
    IN IF m = {} THEN NoId ELSE Min(m)

\* The row the SELECT of _resolve_patient yields, NoId for no row
MatchPatient(patients, name_norm, date_of_birth) ==
    IF NonBlank(date_of_birth)
    THEN LET m == {i \in DOMAIN patients :
                      /\ patients[i].full_name_normalized = name_norm
                      /\ patients[i].date_of_birth = date_of_birth}
         IN IF m = {} THEN NoId ELSE Min(m)
    ELSE LET m == {i \in DOMAIN patients : patients[i].full_name_normalized = name_norm}
         IN IF Cardinality(m) = 1 THEN Min(m) ELSE NoId

\* Variant: the UPDATE of a matched patient also resets first_seen_at
UpdatePatientRestamps(row, address, phones, now) ==
    [row EXCEPT !.document_count = @ + 1, !.last_seen_at = now, !.first_seen_at = now]

\* The UPDATE of a matched patient: every column whose observed value is
\* non-blank is set to it, the count is bumped and last_seen_at set
UpdatePatient(row, address, phones, now) ==
    LET newVal(c) ==
            IF \E i \in DOMAIN PatientAddressFields :
                   /\ PatientAddressFields[i][1] = c
                   /\ NonBlank(Get(address, PatientAddressFields[i][2]))
            THEN Get(address, (CHOOSE f \in Range(PatientAddressFields) : f[1] = c)[2])
            ELSE IF \E i \in DOMAIN PatientPhoneFields :
                   /\ PatientPhoneFields[i][1] = c
                   /\ NonBlank(Get(phones, PatientPhoneFields[i][2]))
            THEN Get(phones, (CHOOSE f \in Range(PatientPhoneFields) : f[1] = c)[2])
            ELSE row[c]
    IN [c \in DOMAIN row |->
            IF c = "document_count" THEN row.document_count + 1
            ELSE IF c = "last_seen_at" THEN now
            ELSE IF c \in {"id", "first_seen_at"} THEN row[c]
            ELSE newVal(c)]

\* The INSERT of a new patient
NewPatient(id, full_name, name_norm, date_of_birth, address, phones, now) ==
    [id |-> id,
     full_name |-> strip(full_name),
     full_name_normalized |-> name_norm,
     date_of_birth |-> IF NonBlank(date_of_birth) THEN date_of_birth ELSE None,
     address_line_1 |-> Get(address, "line_1"),
     address_line_2 |-> Get(address, "line_2"),
     city |-> Get(address, "city"),
     county |-> Get(address, "county"),
     postcode |-> Get(address, "postcode"),
     postcode_district |-> Get(address, "postcode_district"),
     phone_home |-> Get(phones, "home"),
     phone_work |-> Get(phones, "work"),
     phone_mobile |-> Get(phones, "mobile"),
     document_count |-> 1,
     first_seen_at |-> now,
     last_seen_at |-> now]

\* Variant: a name that normalizes to nothing is resolved like any other
ResolvePatientUnguarded(patients, full_name, date_of_birth, address, phones, now) ==
    LET name_norm == normalize_name(full_name)
        row == MatchPatient(patients, name_norm, date_of_birth)
    IN IF row # NoId
       THEN [table |-> [patients EXCEPT
                           ![row] = UpdatePatient(@, address, phones, now)],
             id |-> row]
       ELSE [table |-> Append(patients,
                           NewPatient(Len(patients) + 1, full_name, name_norm,
                                      date_of_birth, address, phones, now)),
             id |-> Len(patients) + 1]

\* _resolve_patient: the patients table afterwards and the id returned
_resolve_patient(patients, full_name, date_of_birth, address, phones, now) ==
    LET name_norm == normalize_name(full_name)
        row == MatchPatient(patients, name_norm, date_of_birth)
    IN IF name_norm = <<>> THEN [table |-> patients, id |-> NoId]
       ELSE IF row # NoId
       THEN [table |-> [patients EXCEPT
                           ![row] = UpdatePatient(@, address, phones, now)],
             id |-> row]
       ELSE [table |-> Append(patients,
                           NewPatient(Len(patients) + 1, full_name, name_norm,
                                      date_of_birth, address, phones, now)),
             id |-> Len(patients) + 1]

\* Variant: the type is not part of the lookup
MatchPractitionerByName(practitioners, name_norm, prac_type) ==
    LET m == {i \in DOMAIN practitioners :
                 practitioners[i].full_name_normalized = name_norm}
    IN IF m = {} THEN NoId ELSE Min(m)

\* The row the SELECT of _resolve_practitioner yields, NoId for no row
MatchPractitioner(practitioners, name_norm, prac_type) ==
    LET m == {i \in DOMAIN practitioners :
                 /\ practitioners[i].full_name_normalized = name_norm
                 /\ practitioners[i].type = prac_type}
    IN IF m = {} THEN NoId ELSE Min(m)

UpdatePractitioner(row, practice_name, address, postcode, now) ==
    [row EXCEPT
        !.practice_name = IF NonBlank(practice_name) THEN practice_name ELSE @,
        !.address = IF NonBlank(address) THEN address ELSE @,
        !.postcode = IF NonBlank(postcode) THEN postcode ELSE @,
        !.document_count = @ + 1,
        !.last_seen_at = now]

NewPractitioner(id, prac_type, full_name, name_norm, practice_name, address, postcode, now) ==
    [id |-> id,
     type |-> prac_type,
     full_name |-> strip(full_name),
     full_name_normalized |-> name_norm,
     practice_name |-> practice_name,
     address |-> address,
     postcode |-> postcode,
     document_count |-> 1,
     first_seen_at |-> now,
     last_seen_at |-> now]

\* _resolve_practitioner: the practitioners table afterwards and the id returned
_resolve_practitioner(practitioners, full_name, practice_name, address, postcode, prac_type, now) ==
    LET name_norm == normalize_name(full_name)
        row == MatchPractitioner(practitioners, name_norm, prac_type)
    IN IF name_norm = <<>> THEN [table |-> practitioners, id |-> NoId]
       ELSE IF row # NoId
       THEN [table |-> [practitioners EXCEPT
                           ![row] = UpdatePractitioner(@, practice_name, address,
                                                       postcode, now)],
             id |-> row]
       ELSE [table |-> Append(practitioners,
                           NewPractitioner(Len(practitioners) + 1, prac_type, full_name,
                                           name_norm, practice_name, address, postcode,
                                           now)),
             id |-> Len(practitioners) + 1]

\* _link_patient_practitioner: INSERT ... ON CONFLICT DO UPDATE on
\* (patient_id, practitioner_id, relationship_type)
_link_patient_practitioner(links, patient_id, practitioner_id, relationship_type, now) ==
    LET same(l) == /\ l.patient_id = patient_id
                   /\ l.practitioner_id = practitioner_id
                   /\ l.relationship_type = relationship_type
    IN IF \E l \in links : same(l)
       THEN {IF same(l)
             THEN [l EXCEPT !.document_count = @ + 1, !.last_seen_at = now]
             ELSE l : l \in links}
       ELSE links \cup {[patient_id |-> patient_id,
                         practitioner_id |-> practitioner_id,
                         relationship_type |-> relationship_type,
                         document_count |-> 1,
                         first_seen_at |-> now,
                         last_seen_at |-> now]}

-----------------------------------------------------------------------------
(* _ingest_file: override resolution *)

NoTag == "<none>"
NoOverride == EmptyDict

GetDict(d, k) == IF k \in DOMAIN d THEN d[k] ELSE EmptyDict
GetTag(d, k) == IF k \in DOMAIN d THEN d[k] ELSE NoTag

\* override.get("override_date", "")
OverrideDate(o) == IF "override_date" \in DOMAIN o THEN o.override_date ELSE <<>>

OverrideKey(o) == <<o.page_number, GetTag(o, "match_address_type")>>

\* Variant: the override listed last wins, whatever its date
PutOverrideLastWins(override_map, override) ==
    LET key == OverrideKey(override)
    IN IF key \notin DOMAIN override_map
       THEN override_map @@ (key :> override)
       ELSE [override_map EXCEPT ![key] = override]

\* One turn of the loop that builds override_map
PutOverride(override_map, override) ==
    LET key == OverrideKey(override)
    IN IF key \notin DOMAIN override_map
       THEN override_map @@ (key :> override)
       ELSE IF StrGreater(OverrideDate(override), OverrideDate(override_map[key]))
            THEN [override_map EXCEPT ![key] = override]
            ELSE override_map

RECURSIVE BuildOverrideMap(_, _)
BuildOverrideMap(override_map, overrides) ==
    IF overrides = <<>> THEN override_map
    ELSE BuildOverrideMap(PutOverride(override_map, Head(overrides)), Tail(overrides))

\* page.get("address_type", "patient")
PageAddressType(page) ==
    IF "address_type" \in DOMAIN page THEN page.address_type ELSE "patient"

\* override_map.get((page_number, address_type))
PageOverride(override_map, page) ==
    LET key == <<page.page_number, PageAddressType(page)>>
    IN IF key \in DOMAIN override_map THEN override_map[key] ELSE NoOverride

\* (override.get(k) if override and override.get(k) else page.get(k)) or {}
EffectiveSub(override, page, k) ==
    IF TruthyDict(override) /\ TruthyDict(GetDict(override, k))
    THEN override[k]
    ELSE GetDict(page, k)

\* The 1 / 0 / NULL written for is_prime
IsPrimeColumn(override, page) ==
    LET eff == IF TruthyDict(override) /\ "is_prime" \in DOMAIN override
               THEN override ELSE page
    IN IF "is_prime" \notin DOMAIN eff THEN "NULL"
       ELSE IF eff.is_prime THEN "1" ELSE "0"

\* The effective values of a page, as the local variables of the loop body
EffectivePage(override_map, page) ==
    LET override == PageOverride(override_map, page)
        ovTag == IF TruthyDict(override) THEN GetTag(override, "address_type") ELSE NoTag
        ovSpec == IF TruthyDict(override) THEN Get(override, "specialist_name") ELSE None
    IN [page_number |-> page.page_number,
        has_override |-> override # NoOverride,
        override |-> override,
        patient |-> EffectiveSub(override, page, "patient"),
        address |-> EffectiveSub(override, page, "address"),
        gp |-> EffectiveSub(override, page, "gp"),
        eff_address_type |-> IF ovTag \notin {NoTag, ""} THEN ovTag
                             ELSE PageAddressType(page),
        eff_is_prime |-> IsPrimeColumn(override, page),
        eff_specialist |-> IF TruthyStr(ovSpec) THEN ovSpec
                           ELSE Get(page, "specialist_name"),
        extraction |-> GetDict(page, "extraction")]

-----------------------------------------------------------------------------
(* _ingest_file: the store and the transaction body *)

EmptyStore ==
    [documents |-> {},
     extractions |-> {},
     patients |-> <<>>,
     practitioners |-> <<>>,
     patient_documents |-> {},
     patient_practitioners |-> {}]

\* file_hash: SHA-256 of the bytes, taken as collision-free
file_hash(content) == <<"sha256", content>>

\* INSERT INTO documents ... ON CONFLICT(document_id) DO UPDATE
UpsertDocument(documents, document_id, current_hash, data, now) ==
    IF \E r \in documents : r.document_id = document_id
    THEN {IF r.document_id = document_id
          THEN [r EXCEPT !.json_hash = current_hash,
                         !.schema_version = Get(data, "schema_version"),
                         !.extracted_at = Get(data, "extracted_at"),
                         !.page_count = Get(data, "page_count"),
                         !.updated_at = now]
          ELSE r : r \in documents}
    ELSE documents \cup {[document_id |-> document_id,
                          json_hash |-> current_hash,
                          schema_version |-> Get(data, "schema_version"),
                          extracted_at |-> Get(data, "extracted_at"),
                          page_count |-> Get(data, "page_count"),
                          ingested_at |-> now,
                          updated_at |-> now]}

\* DELETE FROM extractions / patient_documents WHERE document_id = ?
\* Variant: nothing of the earlier version is deleted
DeleteOldNothing(store, document_id) == store

\* Variant: the patient_documents rows of the earlier version stay
DeleteOldKeepsLinks(store, document_id) ==
    [store EXCEPT !.extractions = {e \in @ : e.document_id # document_id}]

DeleteOld(store, document_id) ==
    [store EXCEPT
        !.extractions = {e \in @ : e.document_id # document_id},
        !.patient_documents = {l \in @ : l.document_id # document_id}]

\* The statements of the try block before the page loop
BeginDocument(store, document_id, current_hash, data, now) ==
    DeleteOld([store EXCEPT
                  !.documents = UpsertDocument(@, document_id, current_hash, data, now)],
              document_id)

\* The locals of _ingest_file when the page loop starts
InitialLocals(document_id, data) ==
    [document_id |-> document_id,
     pages |-> data.pages,
     i |-> 1,
     override_map |-> BuildOverrideMap(EmptyDict,
                          IF "overrides" \in DOMAIN data THEN data.overrides ELSE <<>>),
     seen_patients |-> {},
     seen_practitioners |-> {},
     page_patients |-> EmptyDict,
     page_practitioners |-> EmptyDict,
     seen_patient_practitioner_pairs |-> {},
     state |-> "open"]

NoLocals == [state |-> "none"]

\* d.setdefault(k, set()).add(v)
SetDefaultAdd(d, k, v) ==
    IF k \in DOMAIN d THEN [d EXCEPT ![k] = @ \cup {v}] ELSE d @@ (k :> {v})

\* INSERT INTO extractions ... ON CONFLICT(document_id, page_number, address_type)
\* DO UPDATE
UpsertExtraction(extractions, row) ==
    {e \in extractions :
        ~(/\ e.document_id = row.document_id
          /\ e.page_number = row.page_number
          /\ e.address_type = row.address_type)} \cup {row}

\* 1 if d.get(k) else 0 if d.get(k) is not None else None
FlagColumn(d, k) == IF k \notin DOMAIN d THEN "NULL" ELSE IF d[k] THEN "1" ELSE "0"

ExtractionRow(document_id, eff, patient_id, practitioner_id) ==
    LET phones == GetDict(eff.patient, "phones")
    IN [document_id |-> document_id,
        page_number |-> eff.page_number,
        address_type |-> eff.eff_address_type,
        is_prime |-> eff.eff_is_prime,
        patient_id |-> patient_id,
        practitioner_id |-> practitioner_id,
        patient_full_name |-> Get(eff.patient, "full_name"),
        patient_date_of_birth |-> Get(eff.patient, "date_of_birth"),
        patient_phone_home |-> Get(phones, "home"),
        patient_phone_work |-> Get(phones, "work"),
        patient_phone_mobile |-> Get(phones, "mobile"),
        address_line_1 |-> Get(eff.address, "line_1"),
        address_line_2 |-> Get(eff.address, "line_2"),
        address_city |-> Get(eff.address, "city"),
        address_county |-> Get(eff.address, "county"),
        address_postcode |-> Get(eff.address, "postcode"),
        address_postcode_valid |-> FlagColumn(eff.address, "postcode_valid"),
        address_postcode_district |-> Get(eff.address, "postcode_district"),
        gp_name |-> Get(eff.gp, "name"),
        gp_practice |-> Get(eff.gp, "practice"),
        gp_address |-> Get(eff.gp, "address"),
        gp_postcode |-> Get(eff.gp, "postcode"),
        extraction_method |-> Get(eff.extraction, "method"),
        extraction_confidence |-> Get(eff.extraction, "confidence"),
        specialist_name |-> eff.eff_specialist,
        has_override |-> IF eff.has_override THEN 1 ELSE 0,
        override_reason |-> Get(eff.override, "override_reason"),
        override_date |-> Get(eff.override, "override_date")]

\* One turn of `for page in data["pages"]`: the store and the locals afterwards
ProcessPage(store, locals, page, now) ==
    LET eff == EffectivePage(locals.override_map, page)
        page_number == eff.page_number
        patient_name == Get(eff.patient, "full_name")
        rp == IF NonBlank(patient_name)
              THEN _resolve_patient(store.patients, patient_name,
                                    Get(eff.patient, "date_of_birth"), eff.address,
                                    GetDict(eff.patient, "phones"), now)
              ELSE [table |-> store.patients, id |-> NoId]
        patient_id == rp.id
        gp_name == Get(eff.gp, "name")
        rg == IF NonBlank(gp_name)
              THEN _resolve_practitioner(store.practitioners, gp_name,
                                         Get(eff.gp, "practice"), Get(eff.gp, "address"),
                                         Get(eff.gp, "postcode"), "GP", now)
              ELSE [table |-> store.practitioners, id |-> NoId]
        rs == IF eff.eff_address_type = "specialist" /\ TruthyStr(eff.eff_specialist)
              THEN _resolve_practitioner(rg.table, eff.eff_specialist, None, None, None,
                                         "Consultant", now)
              ELSE rg
        practitioner_id == rs.id
        rel_type == IF eff.eff_address_type = "specialist" THEN "Consultant" ELSE "GP"
    IN [store |->
            [store EXCEPT
                !.patients = rp.table,
                !.practitioners = rs.table,
                !.extractions = UpsertExtraction(@,
                    ExtractionRow(locals.document_id, eff, patient_id, practitioner_id))],
        locals |->
            [locals EXCEPT
                !.i = @ + 1,
                !.seen_patients = IF patient_id # NoId THEN @ \cup {patient_id} ELSE @,
                !.page_patients =
                    IF patient_id # NoId THEN SetDefaultAdd(@, page_number, patient_id)
                    ELSE @,
                !.page_practitioners =
                    IF practitioner_id # NoId
                    THEN SetDefaultAdd(@, page_number, <<practitioner_id, rel_type>>)
                    ELSE @,
                !.seen_practitioners =
                    IF practitioner_id # NoId THEN @ \cup {<<practitioner_id, rel_type>>}
                    ELSE @]]

-----------------------------------------------------------------------------
(* _ingest_file: cross-row linking and commit *)

RECURSIVE SetToSeq(_)
SetToSeq(S) ==
    IF S = {} THEN <<>>
    ELSE LET x == CHOOSE y \in S : TRUE IN <<x>> \o SetToSeq(S \ {x})

\* page_practitioners.get(pg, set())
PagePractitioners(locals, pg) ==
    IF pg \in DOMAIN locals.page_practitioners THEN locals.page_practitioners[pg] ELSE {}

\* The pair_key of every turn of the innermost loop of strategy 1, in turn order
StrategyOneCalls(locals) ==
    LET turns == UNION {UNION {{<<pg, pid, pr>> : pr \in PagePractitioners(locals, pg)} :
                               pid \in locals.page_patients[pg]} :
                        pg \in DOMAIN locals.page_patients}
        order == SetToSeq(turns)
    IN [i \in DOMAIN order |-> <<order[i][2], order[i][3][1], order[i][3][2]>>]

\* Variant: strategy 2 is missing
StrategyTwoCallsNone(locals) == <<>>

\* Variant: every patient of the document is linked to every practitioner
StrategyTwoCallsEveryPatient(locals) ==
    LET order == SetToSeq(locals.seen_patients \X locals.seen_practitioners)
    IN [i \in DOMAIN order |-> <<order[i][1], order[i][2][1], order[i][2][2]>>]

\* The pair_key of every turn of the loop of strategy 2
StrategyTwoCalls(locals) ==
    IF Cardinality(locals.seen_patients) = 1
    THEN LET sole_patient == CHOOSE p \in locals.seen_patients : TRUE
             order == SetToSeq(locals.seen_practitioners)
         IN [i \in DOMAIN order |-> <<sole_patient, order[i][1], order[i][2]>>]
    ELSE <<>>

\* Variant: the seen-pairs guard is missing
AlreadyLinkedNever(pair_key, seen) == FALSE

\* `pair_key not in seen_patient_practitioner_pairs`, negated
AlreadyLinked(pair_key, seen) == pair_key \in seen

\* The turns of the two linking loops applied to the link table
RECURSIVE RunLinkCalls(_, _, _, _)
RunLinkCalls(links, seen, calls, now) ==
    IF calls = <<>> THEN [links |-> links, seen |-> seen]
    ELSE LET k == Head(calls)
         IN IF AlreadyLinked(k, seen)
            THEN RunLinkCalls(links, seen, Tail(calls), now)
            ELSE RunLinkCalls(_link_patient_practitioner(links, k[1], k[2], k[3], now),
                              seen \cup {k}, Tail(calls), now)

\* INSERT INTO patient_documents ... ON CONFLICT DO NOTHING, for every seen patient
LinkDocuments(patient_documents, locals) ==
    patient_documents \cup
        {[patient_id |-> pid, document_id |-> locals.document_id] :
            pid \in locals.seen_patients}

\* The statements of the try block after the page loop, up to the commit
FinishDocument(store, locals, now) ==
    LET linked == RunLinkCalls(store.patient_practitioners,
                               locals.seen_patient_practitioner_pairs,
                               StrategyOneCalls(locals) \o StrategyTwoCalls(locals), now)
    IN [store |->
            [store EXCEPT
                !.patient_practitioners = linked.links,
                !.patient_documents = LinkDocuments(@, locals)],
        locals |->
            [locals EXCEPT !.seen_patient_practitioner_pairs = linked.seen,
                           !.state = "committed"]]

\* Variant: the document upsert is not part of the transaction
RollbackKeepsDocument(committed, working) ==
    [committed EXCEPT !.documents = working.documents]

\* self.conn.rollback(): the connection sees the committed store again
Rollback(committed, working) == committed

-----------------------------------------------------------------------------
(* The fact files of the model *)

sJohnSmith == <<"J","o","h","n"," ","S","m","i","t","h">>
sMrJohnSmith == <<"M","r","."," ","J","o","h","n"," ","S","m","i","t","h">>
sJOHNSMITH == <<"J","O","H","N"," "," ","S","M","I","T","H">>
sAnnRoe == <<"A","n","n"," ","R","o","e">>
sDrLee == <<"D","r"," ","L","e","e">>
sDrLEE == <<"D","r","."," ","L","E","E">>
sProfKay == <<"P","r","o","f"," ","K","a","y">>
sDob == <<"1","9","9","0">>
s1A == <<"1","A">>
s2B == <<"2","B">>
sYork == <<"Y","o","r","k">>
sP1 == <<"P","1">>
sP2 == <<"P","2">>
sU1 == <<"U","1">>
sU2 == <<"U","2">>
sTel == <<"0","1">>
sJan == <<"2","4","-","0","1">>
sJun == <<"2","4","-","0","6">>
sOne == <<"1">>
sTwo == <<"2">>
sThree == <<"3">>
sBlank == <<" ", " ">>
sDrDot == <<"D","r",".">>
sHigh == <<"0",".","9">>
sDobLater == <<"1","9","9","1">>

JsonFile(data) == [kind |-> "json", data |-> data]

\* One page naming John Smith without a date of birth
FileNoDob ==
    JsonFile([page_count |-> sOne,
              pages |-> << [page_number |-> 1,
                            patient |-> [full_name |-> sJohnSmith],
                            address |-> [line_1 |-> s1A]] >>])

\* One page naming John Smith with a date of birth, a GP and a first address
FileDobA ==
    JsonFile([page_count |-> sOne,
              pages |-> << [page_number |-> 1,
                            address_type |-> "patient",
                            patient |-> [full_name |-> sMrJohnSmith, date_of_birth |-> sDob,
                                         phones |-> [home |-> sTel]],
                            address |-> [line_1 |-> s1A, postcode |-> sP1],
                            gp |-> [name |-> sDrLee, practice |-> sU1]] >>])

\* The same person and GP written differently, with other address values
FileDobB ==
    JsonFile([page_count |-> sOne,
              pages |-> << [page_number |-> 1,
                            patient |-> [full_name |-> sJOHNSMITH, date_of_birth |-> sDob],
                            address |-> [line_1 |-> s2B, city |-> sYork],
                            gp |-> [name |-> sDrLEE, practice |-> sU2, postcode |-> sP2]] >>])

\* One patient on a page without practitioner, a GP and a consultant elsewhere
FileSolePatient ==
    JsonFile([page_count |-> sThree,
              pages |-> << [page_number |-> 1,
                            patient |-> [full_name |-> sAnnRoe],
                            address |-> [line_1 |-> s1A]],
                           [page_number |-> 2,
                            address_type |-> "gp",
                            gp |-> [name |-> sDrLee]],
                           [page_number |-> 3,
                            address_type |-> "specialist",
                            specialist_name |-> sProfKay] >>])

\* The same patient and GP on several rows of two pages
FileRepeated ==
    JsonFile([page_count |-> sTwo,
              pages |-> << [page_number |-> 1,
                            address_type |-> "patient",
                            patient |-> [full_name |-> sAnnRoe, date_of_birth |-> sDob],
                            gp |-> [name |-> sDrLee, practice |-> sU1]],
                           [page_number |-> 1,
                            address_type |-> "gp",
                            gp |-> [name |-> sDrLee, postcode |-> sP1]],
                           [page_number |-> 2,
                            address_type |-> "patient",
                            is_prime |-> TRUE,
                            patient |-> [full_name |-> sAnnRoe, date_of_birth |-> sDob],
                            gp |-> [name |-> sDrLEE]] >>])

\* A page corrected by two overrides of different dates
FileOverridden ==
    JsonFile([page_count |-> sOne,
              pages |-> << [page_number |-> 1,
                            address_type |-> "patient",
                            patient |-> [full_name |-> sAnnRoe],
                            address |-> [line_1 |-> s1A, city |-> sYork],
                            gp |-> [name |-> sDrLee]] >>,
              overrides |-> << [page_number |-> 1,
                                match_address_type |-> "patient",
                                override_date |-> sJun,
                                override_reason |-> sTwo,
                                address |-> [line_1 |-> s2B]],
                               [page_number |-> 1,
                                match_address_type |-> "patient",
                                override_date |-> sJan,
                                override_reason |-> sOne,
                                patient |-> [full_name |-> sJohnSmith,
                                             date_of_birth |-> sDob]] >>])

\* A JSON object without the "pages" key
FileNoPages == JsonFile([page_count |-> sOne])

\* A file that is not JSON, and a file open() fails on
FileUnparseable == [kind |-> "garbage"]
FileUnreadable == [kind |-> "unreadable"]

\* One practitioner name observed as a GP and as the consultant of a
\* specialist page, there next to another GP
FileTwoTypes ==
    JsonFile([page_count |-> sTwo,
              pages |-> << [page_number |-> 1,
                            address_type |-> "patient",
                            patient |-> [full_name |-> sAnnRoe, date_of_birth |-> sDob],
                            gp |-> [name |-> sDrLee, practice |-> sU1]],
                           [page_number |-> 2,
                            address_type |-> "specialist",
                            specialist_name |-> sDrLEE,
                            gp |-> [name |-> sProfKay]] >>])

\* Names that are whitespace, empty, only a title, or missing
FileBlankNames ==
    JsonFile([page_count |-> sThree,
              pages |-> << [page_number |-> 1,
                            address_type |-> "patient",
                            patient |-> [full_name |-> sBlank, date_of_birth |-> sDob],
                            address |-> [line_1 |-> s1A],
                            gp |-> [name |-> sDrLee]],
                           [page_number |-> 2,
                            address_type |-> "patient",
                            patient |-> [full_name |-> sAnnRoe],
                            gp |-> [name |-> <<>>, practice |-> sU1]],
                           [page_number |-> 3,
                            address_type |-> "specialist",
                            patient |-> [full_name |-> sDrDot],
                            specialist_name |-> sDrDot],
                           [page_number |-> 4,
                            address_type |-> "gp"] >>])

\* Two pages with the same page number and category, and a page whose
\* category an override changes
FileSameKey ==
    JsonFile([page_count |-> sTwo,
              pages |-> << [page_number |-> 1,
                            address_type |-> "patient",
                            patient |-> [full_name |-> sJohnSmith, date_of_birth |-> sDob],
                            address |-> [line_1 |-> s1A, postcode_valid |-> TRUE],
                            extraction |-> [method |-> sOne, confidence |-> sHigh]],
                           [page_number |-> 1,
                            address_type |-> "patient",
                            patient |-> [full_name |-> sAnnRoe],
                            address |-> [line_1 |-> s2B, postcode_valid |-> FALSE]],
                           [page_number |-> 2,
                            address_type |-> "gp",
                            gp |-> [name |-> sDrLee]] >>,
              overrides |-> << [page_number |-> 2,
                                match_address_type |-> "gp",
                                address_type |-> "specialist",
                                specialist_name |-> sProfKay] >>])

\* Two people of one name, told apart by their dates of birth
FileTwoJohns ==
    JsonFile([page_count |-> sTwo,
              pages |-> << [page_number |-> 1,
                            address_type |-> "patient",
                            patient |-> [full_name |-> sJohnSmith, date_of_birth |-> sDob]],
                           [page_number |-> 2,
                            address_type |-> "patient",
                            patient |-> [full_name |-> sJohnSmith,
                                         date_of_birth |-> sDobLater]] >>])

\* One name on two pages, without and with a blank date of birth, and a GP on
\* a page of its own
FileJohnTwice ==
    JsonFile([page_count |-> sThree,
              pages |-> << [page_number |-> 1,
                            address_type |-> "patient",
                            patient |-> [full_name |-> sJohnSmith],
                            address |-> [line_1 |-> s1A]],
                           [page_number |-> 2,
                            address_type |-> "patient",
                            patient |-> [full_name |-> sMrJohnSmith,
                                         date_of_birth |-> sBlank],
                            address |-> [line_1 |-> s2B]],
                           [page_number |-> 3,
                            address_type |-> "gp",
                            gp |-> [name |-> sDrLee]] >>])

\* Two patients, each on a page with a GP name, the second page being of
\* category specialist without specialist_name, and a GP on a page without
\* patient
FileWard ==
    JsonFile([page_count |-> sThree,
              pages |-> << [page_number |-> 1,
                            address_type |-> "patient",
                            patient |-> [full_name |-> sAnnRoe],
                            gp |-> [name |-> sDrLee]],
                           [page_number |-> 2,
                            address_type |-> "specialist",
                            patient |-> [full_name |-> sJohnSmith, date_of_birth |-> sDob],
                            gp |-> [name |-> sDrLEE]],
                           [page_number |-> 3,
                            address_type |-> "gp",
                            gp |-> [name |-> sProfKay]] >>])

Catalogue == <<FileNoDob, FileDobA, FileDobB, FileSolePatient, FileRepeated,
               FileOverridden, FileNoPages, FileUnparseable, FileUnreadable,
               FileTwoTypes, FileBlankNames, FileSameKey,
               FileTwoJohns, FileJohnTwice, FileWard>>

\* The contents the files take in the specifications of the ingestion
BatchFiles == 1..9
EntityFiles == {5, 10, 11, 12}
LinkFiles == {13, 14, 15}

\* sorted(addresses_path.glob("*.json")), by stem
JsonFiles == <<"a", "b">>
DocIds == Range(JsonFiles)

-----------------------------------------------------------------------------
(* ingest_directory and _ingest_file as steps *)

NoResult == [done |-> FALSE]
NoContent == 0

ZeroStats == [processed |-> 0, skipped |-> 0, errors |-> 0]

IngestInit(f) ==
    /\ files = f
    /\ db = EmptyStore
    /\ tx = EmptyStore
    /\ pc = "idle"
    /\ cur = 1
    /\ loc = NoLocals
    /\ stats = ZeroStats
    /\ log = <<>>
    /\ run = 0
    /\ edits = 0
    /\ ingested = [d \in DocIds |-> NoContent]

\* The parts of the state that a specification leaves alone
OverrideIdle == ovIn = <<>> /\ ovPage = EmptyDict /\ ovOut = NoResult
NormalizeIdle == nmIn = <<>> /\ nmOut = NoResult
IngestIdle == IngestInit([d \in DocIds |-> 1])
FuzzyIdle == fzIn = EmptyDict /\ fzOut = NoResult
MatcherIdle == extracted_addresses = <<>> /\ gm = [pc |-> "idle"]

Init ==
    /\ \E f \in [DocIds -> BatchFiles] : IngestInit(f)
    /\ OverrideIdle
    /\ NormalizeIdle
    /\ FuzzyIdle
    /\ MatcherIdle

\* The file the for loop of ingest_directory is at
CurrentDoc == JsonFiles[cur]
CurrentContent == Catalogue[files[CurrentDoc]]
Visiting == pc = "scan" /\ cur <= Len(JsonFiles)

\* Variant: the hash comparison never succeeds
UnchangedNever(documents, document_id, current_hash) == FALSE

\* Variant: any existing row counts as unchanged
UnchangedIfRowExists(documents, document_id, current_hash) ==
    \E r \in documents : r.document_id = document_id

\* `row and row["json_hash"] == current_hash`
Unchanged(documents, document_id, current_hash) ==
    \E r \in documents : r.document_id = document_id /\ r.json_hash = current_hash

\* Variant: no try/except around the call, an error ends the loop
CountAbortOnError(outcome) ==
    /\ stats' = [stats EXCEPT
                    !.processed = IF outcome = "processed" THEN @ + 1 ELSE @,
                    !.skipped = IF outcome \in {"unchanged", "nopages"} THEN @ + 1 ELSE @,
                    !.errors = IF outcome = "error" THEN @ + 1 ELSE @]
    /\ log' = Append(log, <<CurrentDoc, outcome>>)
    /\ cur' = IF outcome = "error" THEN Len(JsonFiles) + 1 ELSE cur + 1

\* What ingest_directory does with the outcome of one _ingest_file call
Count(outcome) ==
    /\ stats' = [stats EXCEPT
                    !.processed = IF outcome = "processed" THEN @ + 1 ELSE @,
                    !.skipped = IF outcome \in {"unchanged", "nopages"} THEN @ + 1 ELSE @,
                    !.errors = IF outcome = "error" THEN @ + 1 ELSE @]
    /\ log' = Append(log, <<CurrentDoc, outcome>>)
    /\ cur' = cur + 1

\* A run of ingest_directory starts
StartRun ==
    /\ pc = "idle"
    /\ run < MaxRuns
    /\ run' = run + 1
    /\ pc' = "scan"
    /\ cur' = 1
    /\ stats' = ZeroStats
    /\ log' = <<>>
    /\ UNCHANGED <<files, db, tx, loc, edits, ingested>>

\* The loop is over: stats is returned
EndRun ==
    /\ pc = "scan"
    /\ cur > Len(JsonFiles)
    /\ pc' = "idle"
    /\ loc' = NoLocals
    /\ UNCHANGED <<files, db, tx, cur, stats, log, run, edits, ingested>>

\* Between two runs the producer rewrites one fact file
EditFile ==
    /\ pc = "idle"
    /\ edits < MaxEdits
    /\ \E d \in DocIds, c \in BatchFiles :
          /\ c # files[d]
          /\ files' = [files EXCEPT ![d] = c]
    /\ edits' = edits + 1
    /\ UNCHANGED <<db, tx, pc, cur, loc, stats, log, run, ingested>>

\* The same between two runs over the files of the second specification
EditEntityFile ==
    /\ pc = "idle"
    /\ edits < MaxEdits
    /\ \E d \in DocIds, c \in EntityFiles :
          /\ c # files[d]
          /\ files' = [files EXCEPT ![d] = c]
    /\ edits' = edits + 1
    /\ UNCHANGED <<db, tx, pc, cur, loc, stats, log, run, ingested>>

\* The same over the files of the third specification
EditLinkFile ==
    /\ pc = "idle"
    /\ edits < MaxEdits
    /\ \E d \in DocIds, c \in LinkFiles :
          /\ c # files[d]
          /\ files' = [files EXCEPT ![d] = c]
    /\ edits' = edits + 1
    /\ UNCHANGED <<db, tx, pc, cur, loc, stats, log, run, ingested>>

\* file_hash raises: the file cannot be read
IngestUnreadable ==
    /\ Visiting
    /\ CurrentContent.kind = "unreadable"
    /\ Count("error")
    /\ loc' = NoLocals
    /\ UNCHANGED <<files, db, tx, pc, run, edits, ingested>>

\* The stored hash equals the file's: return False
IngestUnchanged ==
    /\ Visiting
    /\ CurrentContent.kind # "unreadable"
    /\ Unchanged(tx.documents, CurrentDoc, file_hash(files[CurrentDoc]))
    /\ Count("unchanged")
    /\ loc' = NoLocals
    /\ UNCHANGED <<files, db, tx, pc, run, edits, ingested>>

\* json.load raises
IngestUnparseable ==
    /\ Visiting
    /\ CurrentContent.kind = "garbage"
    /\ ~Unchanged(tx.documents, CurrentDoc, file_hash(files[CurrentDoc]))
    /\ Count("error")
    /\ loc' = NoLocals
    /\ UNCHANGED <<files, db, tx, pc, run, edits, ingested>>

\* Variant: the rows of the document are dropped before the return
IngestNoPagesDropsDocument ==
    /\ Visiting
    /\ CurrentContent.kind = "json"
    /\ ~Unchanged(tx.documents, CurrentDoc, file_hash(files[CurrentDoc]))
    /\ "pages" \notin DOMAIN CurrentContent.data
    /\ tx' = [tx EXCEPT !.documents = {r \in @ : r.document_id # CurrentDoc}]
    /\ db' = tx'
    /\ Count("nopages")
    /\ loc' = NoLocals
    /\ UNCHANGED <<files, pc, run, edits, ingested>>

\* No "pages" key: warning, return False
IngestNoPages ==
    /\ Visiting
    /\ CurrentContent.kind = "json"
    /\ ~Unchanged(tx.documents, CurrentDoc, file_hash(files[CurrentDoc]))
    /\ "pages" \notin DOMAIN CurrentContent.data
    /\ Count("nopages")
    /\ loc' = NoLocals
    /\ UNCHANGED <<files, db, tx, pc, run, edits, ingested>>

\* BEGIN, the document upsert, the deletes and the override map
BeginTransaction ==
    /\ Visiting
    /\ CurrentContent.kind = "json"
    /\ ~Unchanged(tx.documents, CurrentDoc, file_hash(files[CurrentDoc]))
    /\ "pages" \in DOMAIN CurrentContent.data
    /\ tx' = BeginDocument(tx, CurrentDoc, file_hash(files[CurrentDoc]),
                           CurrentContent.data, run)
    /\ loc' = InitialLocals(CurrentDoc, CurrentContent.data)
    /\ pc' = "tx"
    /\ UNCHANGED <<files, db, cur, stats, log, run, edits, ingested>>

\* One turn of the page loop
PageTurn ==
    /\ pc = "tx"
    /\ loc.i <= Len(loc.pages)
    /\ LET r == ProcessPage(tx, loc, loc.pages[loc.i], run)
       IN /\ tx' = r.store
          /\ loc' = r.locals
    /\ UNCHANGED <<files, db, pc, cur, stats, log, run, edits, ingested>>

\* Linking, commit, return True
Commit ==
    /\ pc = "tx"
    /\ loc.i > Len(loc.pages)
    /\ LET r == FinishDocument(tx, loc, run)
       IN /\ tx' = r.store
          /\ db' = r.store
          /\ loc' = r.locals
    /\ Count("processed")
    /\ ingested' = [ingested EXCEPT ![CurrentDoc] = files[CurrentDoc]]
    /\ pc' = "scan"
    /\ UNCHANGED <<files, run, edits>>

\* An exception inside the try block: rollback, re-raise, counted by the caller
Raise ==
    /\ pc = "tx"
    /\ tx' = Rollback(db, tx)
    /\ loc' = [state |-> "rolled_back", document_id |-> loc.document_id, i |-> loc.i]
    /\ Count("error")
    /\ pc' = "scan"
    /\ UNCHANGED <<files, db, run, edits, ingested>>

Next ==
    /\ \/ StartRun
       \/ EndRun
       \/ EditFile
       \/ IngestUnreadable
       \/ IngestUnchanged
       \/ IngestUnparseable
       \/ IngestNoPages
       \/ BeginTransaction
       \/ PageTurn
       \/ Commit
       \/ Raise
    /\ UNCHANGED <<ovVars, nmVars, fzVars, gmVars>>

Spec == Init /\ [][Next]_vars

\* The same engine over files that exercise the entity keys, blank names and
\* repeated extraction keys
InitEntities ==
    /\ \E f \in [DocIds -> EntityFiles] : IngestInit(f)
    /\ OverrideIdle
    /\ NormalizeIdle
    /\ FuzzyIdle
    /\ MatcherIdle

NextEntities ==
    /\ \/ StartRun
       \/ EndRun
       \/ EditEntityFile
       \/ IngestUnchanged
       \/ BeginTransaction
       \/ PageTurn
       \/ Commit
       \/ Raise
    /\ UNCHANGED <<ovVars, nmVars, fzVars, gmVars>>

SpecEntities == InitEntities /\ [][NextEntities]_vars

\* The same engine over files in which one name stands for several people and
\* several patients share a document
InitLinks ==
    /\ \E f \in [DocIds -> LinkFiles] : IngestInit(f)
    /\ OverrideIdle
    /\ NormalizeIdle
    /\ FuzzyIdle
    /\ MatcherIdle

NextLinks ==
    /\ \/ StartRun
       \/ EndRun
       \/ EditLinkFile
       \/ IngestUnchanged
       \/ BeginTransaction
       \/ PageTurn
       \/ Commit
       \/ Raise
    /\ UNCHANGED <<ovVars, nmVars, fzVars, gmVars>>

SpecLinks == InitLinks /\ [][NextLinks]_vars

TypeOK ==
    /\ pc \in {"idle", "scan", "tx"}
    /\ (pc # "tx") => tx = db

-----------------------------------------------------------------------------
(* Helpers of the properties *)

LastOutcome == IF log = <<>> THEN "none" ELSE log[Len(log)][2]
LastDoc == log[Len(log)][1]
RunOver == pc = "scan" /\ cur > Len(JsonFiles)

\* The step returns from _ingest_file for the current file with this outcome
Returns(outcome) == log' = Append(log, <<CurrentDoc, outcome>>)

HasPages(c) == Catalogue[c].kind = "json" /\ "pages" \in DOMAIN Catalogue[c].data

PatientsNamed(store, name_norm) ==
    {i \in DOMAIN store.patients : store.patients[i].full_name_normalized = name_norm}

-----------------------------------------------------------------------------
(* C1 *)

\* C1: when the file the loop is at has the very bytes that the last committed
\* ingestion of that document read, the call returns "skipped (unchanged)" and
\* no table changes: the committed store and the connection's view stay as they
\* are, rows, counters and last_seen_at included.
C1_IdempotentReingest ==
    [][(Visiting /\ ingested[CurrentDoc] = files[CurrentDoc])
         => /\ Returns("unchanged")
            /\ stats'.skipped = stats.skipped + 1
            /\ db' = db
            /\ tx' = tx]_vars

\* A second run skipped a document whose first ingestion left entities and links
C1_Witness ==
    /\ pc = "scan"
    /\ run = 2
    /\ LastOutcome = "unchanged"
    /\ db.patient_practitioners # {}
    /\ \E e \in db.extractions : e.document_id = LastDoc /\ e.patient_id # NoId

-----------------------------------------------------------------------------
(* C2 *)

\* C2: an exception inside a document's transaction leaves the store as it was
\* before the transaction began (stored hash included) and counts the document
\* as an error; no step inside a transaction changes the committed store; and
\* whenever no transaction is open, what the connection sees is exactly the
\* committed store.
C2_Atomic ==
    [][/\ (pc = "tx" /\ Returns("error"))
            => /\ db' = db
               /\ tx' = db
               /\ stats'.errors = stats.errors + 1
       /\ (pc = "scan" /\ pc' = "tx") => (tx = db /\ db' = db)
       /\ (pc = "tx" /\ pc' = "tx") => db' = db
       /\ (pc' # "tx") => tx' = db']_vars

\* A transaction that had already rewritten rows of a non-empty store failed
C2_Witness ==
    /\ pc = "scan"
    /\ LastOutcome = "error"
    /\ loc.state = "rolled_back"
    /\ loc.i > 1
    /\ \E r \in db.documents : r.document_id = loc.document_id
    /\ db.patients # <<>>
    /\ tx = db

-----------------------------------------------------------------------------
(* C3 *)

PractitionerFillColumns == {"practice_name", "address", "postcode"}
PatientFillColumns ==
    {PatientAddressFields[i][1] : i \in DOMAIN PatientAddressFields}
        \cup {PatientPhoneFields[i][1] : i \in DOMAIN PatientPhoneFields}

\* C3: a committed patient's address/phone column, and a committed
\* practitioner's practice_name/address/postcode, that is non-null keeps its
\* value through every later ingestion.
C3_FirstWriteWins ==
    [][/\ \A i \in DOMAIN db.patients : \A c \in PatientFillColumns :
             db.patients[i][c] # None => db'.patients[i][c] = db.patients[i][c]
       /\ \A i \in DOMAIN db.practitioners : \A c \in PractitionerFillColumns :
             db.practitioners[i][c] # None
                => db'.practitioners[i][c] = db.practitioners[i][c]]_vars

-----------------------------------------------------------------------------
(* C4 *)

\* The normalized name of the patient of a file without overrides whose only
\* patient page carries no date of birth; <<>> for any other file
SoleNoDobName(c) ==
    IF HasPages(c) /\ "overrides" \notin DOMAIN Catalogue[c].data
    THEN LET pages == Catalogue[c].data.pages
             named == {i \in DOMAIN pages :
                          NonBlank(Get(GetDict(pages[i], "patient"), "full_name"))}
         IN IF /\ Cardinality(named) = 1
               /\ \A i \in named :
                     ~NonBlank(Get(GetDict(pages[i], "patient"), "date_of_birth"))
            THEN normalize_name(
                     (GetDict(pages[CHOOSE i \in named : TRUE], "patient")).full_name)
            ELSE <<>>
    ELSE <<>>

\* The first run over an empty store committed both documents, and each names
\* the same patient once, without a date of birth
TwoNoDobDocuments ==
    /\ RunOver
    /\ run = 1
    /\ log = <<<<JsonFiles[1], "processed">>, <<JsonFiles[2], "processed">>>>
    /\ SoleNoDobName(files[JsonFiles[1]]) # <<>>
    /\ SoleNoDobName(files[JsonFiles[1]]) = SoleNoDobName(files[JsonFiles[2]])

-----------------------------------------------------------------------------
(* C5 *)

\* The normalized name and date of birth of a single-page file whose page
\* carries both; <<>> for any other file
SinglePageDobKey(c) ==
    IF HasPages(c) /\ "overrides" \notin DOMAIN Catalogue[c].data
          /\ Len(Catalogue[c].data.pages) = 1
    THEN LET patient == GetDict(Catalogue[c].data.pages[1], "patient")
         IN IF NonBlank(Get(patient, "full_name")) /\ NonBlank(Get(patient, "date_of_birth"))
            THEN <<normalize_name(patient.full_name), patient.date_of_birth>>
            ELSE <<>>
    ELSE <<>>

TwoDobDocuments ==
    /\ RunOver
    /\ run = 1
    /\ log = <<<<JsonFiles[1], "processed">>, <<JsonFiles[2], "processed">>>>
    /\ SinglePageDobKey(files[JsonFiles[1]]) # <<>>
    /\ SinglePageDobKey(files[JsonFiles[1]]) = SinglePageDobKey(files[JsonFiles[2]])

\* C5: in every state, committed or inside a transaction, no two Patient rows
\* share a normalized name and a non-null date of birth; and two single-page
\* documents with names that normalize alike and the same date of birth,
\* ingested into an empty store, yield one Patient row with document_count 2.
C5_OnePatientPerNameAndDob ==
    /\ \A i, j \in DOMAIN tx.patients :
          (/\ tx.patients[i].full_name_normalized = tx.patients[j].full_name_normalized
           /\ tx.patients[i].date_of_birth # None
           /\ tx.patients[i].date_of_birth = tx.patients[j].date_of_birth) => i = j
    /\ TwoDobDocuments
          => LET rows == PatientsNamed(db, SinglePageDobKey(files[JsonFiles[1]])[1])
             IN /\ Cardinality(rows) = 1
                /\ \A i \in rows : db.patients[i].document_count = 2

\* Two documents that write the name and the address differently were merged
C5_Witness ==
    /\ TwoDobDocuments
    /\ files[JsonFiles[1]] # files[JsonFiles[2]]
    /\ Len(db.patients) = 1
    /\ db.patients[1].document_count = 2

-----------------------------------------------------------------------------
(* Override resolution on its own: the overrides list and the page are drawn *)
(* from small sets and the loop body's effective values are computed         *)

Optional(k, values) == {EmptyDict} \cup {k :> v : v \in values}

OvOverrides ==
    {[page_number |-> key[1], match_address_type |-> key[2]] @@ date @@ body :
        key \in {<<1, "patient">>, <<1, "gp">>, <<2, "patient">>},
        date \in Optional("override_date", {sJan, sJun}),
        body \in {[patient |-> [full_name |-> sJohnSmith], address |-> EmptyDict],
                  [address |-> [line_1 |-> s2B], gp |-> [name |-> sDrLEE]]}}

OvLists == UNION {[1..n -> OvOverrides] : n \in 0..MaxOverrides}

OvPages ==
    {[page_number |-> 1,
      patient |-> [full_name |-> sAnnRoe, date_of_birth |-> sDob],
      address |-> [line_1 |-> s1A, city |-> sYork],
      gp |-> [name |-> sDrLee, practice |-> sU1]],
     [page_number |-> 1,
      address_type |-> "gp",
      gp |-> [name |-> sDrLee, practice |-> sU1]],
     [page_number |-> 2,
      address_type |-> "patient",
      patient |-> [full_name |-> sAnnRoe]]}

InitOverride ==
    /\ IngestIdle
    /\ NormalizeIdle
    /\ FuzzyIdle
    /\ MatcherIdle
    /\ ovIn \in OvLists
    /\ ovPage \in OvPages
    /\ ovOut = NoResult

\* The override map is built and the effective values of the page are taken
ResolveOverrides ==
    /\ ~ovOut.done
    /\ ovOut' = [done |-> TRUE,
                 eff |-> EffectivePage(BuildOverrideMap(EmptyDict, ovIn), ovPage)]
    /\ UNCHANGED <<ovIn, ovPage>>

NextOverride == ResolveOverrides /\ UNCHANGED <<ingestVars, nmVars, fzVars, gmVars>>

SpecOverride == InitOverride /\ [][NextOverride]_vars

-----------------------------------------------------------------------------
(* C6 *)

Reverse(q) == [i \in DOMAIN q |-> q[Len(q) + 1 - i]]

\* The overrides of the list whose key is the page's (page_number, address_type)
OvCandidates ==
    {i \in DOMAIN ovIn :
        /\ ovIn[i].page_number = ovPage.page_number
        /\ GetTag(ovIn[i], "match_address_type") = PageAddressType(ovPage)}

\* Those of them no other candidate has a greater override_date than
OvLatest ==
    {i \in OvCandidates :
        \A j \in OvCandidates :
            ~StrGreater(OverrideDate(ovIn[j]), OverrideDate(ovIn[i]))}

\* C6: the override applied to a page is the first listed among the overrides
\* of the page's (page_number, address_type) that have the greatest
\* override_date; when the dates of those overrides differ the listing order
\* does not matter; and each of patient, address and gp is the override's whole
\* sub-object when the override supplies a non-empty one, otherwise the page's
\* whole sub-object.
C6_EffectivePage ==
    ovOut.done =>
        /\ IF OvCandidates = {}
           THEN /\ ~ovOut.eff.has_override
                /\ \A k \in {"patient", "address", "gp"} :
                      ovOut.eff[k] = GetDict(ovPage, k)
           ELSE LET w == ovIn[Min(OvLatest)]
                IN /\ ovOut.eff.has_override
                   /\ ovOut.eff.override = w
                   /\ \A k \in {"patient", "address", "gp"} :
                         ovOut.eff[k] = IF k \in DOMAIN w /\ DOMAIN w[k] # {}
                                        THEN w[k] ELSE GetDict(ovPage, k)
        /\ (\A i, j \in OvCandidates :
                i # j => OverrideDate(ovIn[i]) # OverrideDate(ovIn[j]))
              => EffectivePage(BuildOverrideMap(EmptyDict, Reverse(ovIn)), ovPage)
                    = ovOut.eff

\* The later-dated override is listed first, an earlier one and an undated one
\* after it; it replaces the address wholesale and leaves the patient to the page
C6_Witness ==
    /\ ovOut.done
    /\ Cardinality(OvCandidates) = 3
    /\ OvLatest = {1}
    /\ OverrideDate(ovIn[1]) = sJun
    /\ ovOut.eff.address = [line_1 |-> s2B]
    /\ ovOut.eff.patient = ovPage.patient
    /\ ovOut.eff.gp = [name |-> sDrLEE]

-----------------------------------------------------------------------------
(* C7 *)

LinkRows(store, pid, prac_id, rel_type) ==
    {l \in store.patient_practitioners :
        /\ l.patient_id = pid
        /\ l.practitioner_id = prac_id
        /\ l.relationship_type = rel_type}

\* C7: after the commit of a document whose pages resolved to exactly one
\* patient, the store links that patient to every (practitioner,
\* relationship_type) that a page of the document resolved, whatever page it
\* was on.
C7_SolePatientLinked ==
    (pc = "scan" /\ loc.state = "committed" /\ Cardinality(loc.seen_patients) = 1)
        => \A pid \in loc.seen_patients :
              \A pg \in DOMAIN loc.page_practitioners :
                 \A pr \in loc.page_practitioners[pg] :
                    LinkRows(db, pid, pr[1], pr[2]) # {}

\* The patient's only page has no practitioner; a GP and a consultant appear on
\* two other pages and both are linked
C7_Witness ==
    /\ pc = "scan"
    /\ loc.state = "committed"
    /\ Cardinality(loc.seen_patients) = 1
    /\ Cardinality(DOMAIN loc.page_patients) = 1
    /\ DOMAIN loc.page_patients \cap DOMAIN loc.page_practitioners = {}
    /\ Cardinality(loc.seen_practitioners) = 2
    /\ \A pid \in loc.seen_patients : \A pr \in loc.seen_practitioners :
          LinkRows(db, pid, pr[1], pr[2]) # {}

-----------------------------------------------------------------------------
(* C8 *)

LinkCount(store, pid, prac_id, rel_type) ==
    IF LinkRows(store, pid, prac_id, rel_type) = {} THEN 0
    ELSE (CHOOSE l \in LinkRows(store, pid, prac_id, rel_type) : TRUE).document_count

\* The pages of the document on which both the patient and the pair appear
JustifyingPages(locals, pid, pr) ==
    {pg \in DOMAIN locals.page_patients :
        pid \in locals.page_patients[pg] /\ pr \in PagePractitioners(locals, pg)}

SoleJustified(locals, pid, pr) ==
    locals.seen_patients = {pid} /\ pr \in locals.seen_practitioners

\* C8: the ingestion of one document raises the document_count of a link
\* (inserting it with 1 when new) by exactly 1 when some page or the
\* sole-patient rule justifies the link, however many do, and by 0 otherwise.
C8_LinkedOncePerDocument ==
    [][(pc = "tx" /\ pc' = "scan" /\ loc'.state = "committed")
          => \A pid \in 1..Len(db'.patients), prac_id \in 1..Len(db'.practitioners),
                rel_type \in {"GP", "Consultant"} :
                LinkCount(db', pid, prac_id, rel_type)
                    - LinkCount(db, pid, prac_id, rel_type)
                  = IF \/ JustifyingPages(loc, pid, <<prac_id, rel_type>>) # {}
                       \/ SoleJustified(loc, pid, <<prac_id, rel_type>>)
                    THEN 1 ELSE 0]_vars

\* A link that two pages and the sole-patient rule all justify, on a document
\* that raised an existing link from 1 to 2
C8_Witness ==
    /\ pc = "scan"
    /\ loc.state = "committed"
    /\ \E pid \in loc.seen_patients, pr \in loc.seen_practitioners :
          /\ Cardinality(JustifyingPages(loc, pid, pr)) >= 2
          /\ SoleJustified(loc, pid, pr)
          /\ LinkCount(db, pid, pr[1], pr[2]) = 2

-----------------------------------------------------------------------------
(* C9 *)

Outcomes(o) == Cardinality({i \in DOMAIN log : log[i][2] \in o})

\* The json_hash stored for a document, None when it has no row
StoredHash(store, document_id) ==
    IF \E r \in store.documents : r.document_id = document_id
    THEN (CHOOSE r \in store.documents : r.document_id = document_id).json_hash
    ELSE None

\* C9: during a run the files are visited one by one in sorted order, each
\* visited file is counted in exactly one of processed, skipped and errors
\* whatever happened to the files before it, at the end of the run the three
\* counters add up to the number of files, and every file reported processed
\* is committed with its hash, also after earlier files failed.
C9_BatchContinues ==
    (pc # "idle") =>
        /\ Len(log) = cur - 1
        /\ \A i \in DOMAIN log : log[i][1] = JsonFiles[i]
        /\ stats.processed = Outcomes({"processed"})
        /\ stats.skipped = Outcomes({"unchanged", "nopages"})
        /\ stats.errors = Outcomes({"error"})
        /\ stats.processed + stats.skipped + stats.errors = Len(log)
        /\ RunOver => stats.processed + stats.skipped + stats.errors = Len(JsonFiles)
        /\ \A i \in DOMAIN log :
              log[i][2] = "processed"
                 => StoredHash(db, log[i][1]) = file_hash(files[log[i][1]])

\* The transaction of the first file failed and was rolled back; the second
\* file was then ingested and committed
C9_Witness ==
    /\ RunOver
    /\ log = <<<<JsonFiles[1], "error">>, <<JsonFiles[2], "processed">>>>
    /\ stats = [processed |-> 1, skipped |-> 0, errors |-> 1]
    /\ StoredHash(db, JsonFiles[2]) = file_hash(files[JsonFiles[2]])
    /\ StoredHash(db, JsonFiles[1]) = None
    /\ HasPages(files[JsonFiles[1]])

-----------------------------------------------------------------------------
(* C10 *)

\* The documents table holds exactly what the commits put there
HashesAreCommitted(store) ==
    /\ \A r1, r2 \in store.documents : r1.document_id = r2.document_id => r1 = r2
    /\ \A d \in DocIds :
          StoredHash(store, d) = IF ingested[d] = NoContent THEN None
                                 ELSE file_hash(ingested[d])

\* C10: a readable file is skipped as unchanged exactly when its document has
\* a row whose hash is the file's, which is exactly when the last commit of the
\* document ingested these bytes; otherwise it is attempted, and a well-formed
\* one gets its transaction; the stored hash changes only in a commit, so a
\* document whose transaction failed is attempted again in the next run; and no
\* document_id ever has two rows.
C10_HashGate ==
    [][/\ (Visiting /\ CurrentContent.kind # "unreadable")
            => /\ Returns("unchanged")
                    <=> StoredHash(db, CurrentDoc) = file_hash(files[CurrentDoc])
               /\ Returns("unchanged") <=> ingested[CurrentDoc] = files[CurrentDoc]
               /\ (HasPages(files[CurrentDoc]) /\ ~Returns("unchanged")) => pc' = "tx"
       /\ db'.documents # db.documents => (pc = "tx" /\ Returns("processed"))
       /\ HashesAreCommitted(db)'
       /\ \A r1, r2 \in tx'.documents : r1.document_id = r2.document_id => r1 = r2]_vars

\* In the second run the document whose transaction failed in the first run is
\* ingested, and the unchanged committed one is skipped
C10_Witness ==
    /\ RunOver
    /\ run = 2
    /\ edits = 0
    /\ log = <<<<JsonFiles[1], "processed">>, <<JsonFiles[2], "unchanged">>>>
    /\ ingested[JsonFiles[1]] = files[JsonFiles[1]]

-----------------------------------------------------------------------------
(* C11 *)

\* The name and type under which the page of an extraction row was resolved to
\* its practitioner: the specialist's on a specialist page that names one, the
\* GP's otherwise
ObservedPractitioner(e) ==
    IF e.address_type = "specialist" /\ TruthyStr(e.specialist_name)
    THEN [name |-> e.specialist_name, type |-> "Consultant"]
    ELSE [name |-> e.gp_name, type |-> "GP"]

\* C11: in every state, committed or inside a transaction, no two Practitioner
\* rows share a normalized name and a type; the practitioner a page was
\* resolved to is the row of the observed name's normalized form and the
\* observed type; and two pages that observe a name, also the same name, under
\* different types were resolved to different rows.
C11_PractitionerKey ==
    /\ \A i, j \in DOMAIN tx.practitioners :
          (/\ tx.practitioners[i].full_name_normalized
                 = tx.practitioners[j].full_name_normalized
           /\ tx.practitioners[i].type = tx.practitioners[j].type) => i = j
    /\ \A e \in tx.extractions :
          e.practitioner_id # NoId
             => LET row == tx.practitioners[e.practitioner_id]
                    seen == ObservedPractitioner(e)
                IN /\ row.type = seen.type
                   /\ row.full_name_normalized = normalize_name(seen.name)
    /\ \A e1, e2 \in tx.extractions :
          (/\ e1.practitioner_id # NoId
           /\ e2.practitioner_id # NoId
           /\ ObservedPractitioner(e1).type # ObservedPractitioner(e2).type)
             => e1.practitioner_id # e2.practitioner_id

\* "Dr Lee" was seen as a GP by two documents, written differently, and
\* "Dr. LEE" as a consultant: two rows, the GP's counted more than once
C11_Witness ==
    /\ pc = "scan"
    /\ \E i, j \in DOMAIN db.practitioners :
          /\ db.practitioners[i].full_name_normalized
                = db.practitioners[j].full_name_normalized
          /\ db.practitioners[i].type = "GP"
          /\ db.practitioners[j].type = "Consultant"
          /\ db.practitioners[i].document_count > 1
    /\ \E e1, e2 \in db.extractions :
          /\ e1.document_id # e2.document_id
          /\ e1.practitioner_id = e2.practitioner_id
          /\ e1.practitioner_id # NoId
          /\ e1.gp_name # e2.gp_name

-----------------------------------------------------------------------------
(* normalize_name on its own: the name is drawn from a set of written forms  *)
(* of a few names and normalized                                             *)

sJaneOBrienSmith == <<"J","a","n","e"," ","O","'","B","r","i","e","n","-","S","m","i","t","h">>
sJaneSmith == <<"J","a","n","e"," ","S","m","i","t","h">>
sJaneCommaSmith == <<"J","a","n","e",","," "," ","S","m","i","t","h">>
sLee == <<"L","e","e">>

NamePrefixes ==
    {<<>>, <<" ">>, <<"D","r"," ">>, <<"D","r","."," ">>, <<"M","R"," "," ">>,
     <<"p","r","o","f","."," ">>, <<"M","i","s","s"," ">>}

NameBodies ==
    {<<>>, sJaneOBrienSmith, upper(sJaneOBrienSmith), sJaneSmith, sJaneCommaSmith,
     sLee, sDrLee, sDrLEE, sJOHNSMITH}

NameSuffixes == {<<>>, <<" ">>, <<".">>}

NameInputs ==
    {pre \o body \o suf : pre \in NamePrefixes, body \in NameBodies, suf \in NameSuffixes}

InitNormalize ==
    /\ IngestIdle
    /\ OverrideIdle
    /\ FuzzyIdle
    /\ MatcherIdle
    /\ nmIn \in NameInputs
    /\ nmOut = NoResult

\* name_norm = normalize_name(full_name)
Normalize ==
    /\ ~nmOut.done
    /\ nmOut' = [done |-> TRUE, name_norm |-> normalize_name(nmIn)]
    /\ UNCHANGED nmIn

NextNormalize == Normalize /\ UNCHANGED <<ingestVars, ovVars, fzVars, gmVars>>

SpecNormalize == InitNormalize /\ [][NextNormalize]_vars

-----------------------------------------------------------------------------
(* C12 *)

IsPunctuation(c) == ~(IsWordChar(c) \/ IsSpace(c) \/ c = "-" \/ c = "'")
IsNotPunctuation(c) == ~IsPunctuation(c)
WithoutPunctuation(s) == SelectSeq(s, IsNotPunctuation)

RECURSIVE DoubleSpaces(_)
DoubleSpaces(s) ==
    IF s = <<>> THEN <<>>
    ELSE (IF IsSpace(Head(s)) THEN <<" ", " ">> ELSE <<Head(s)>>) \o DoubleSpaces(Tail(s))

\* Honorific titles as they are written in front of a name
TitleForms ==
    {<<"D","r"," ">>, <<"D","r","."," ">>, <<"M","R","S"," ">>,
     <<"P","r","o","f","."," ">>, <<"r","e","v"," ">>}

\* The letters of a name, its honorific titles left out
RECURSIVE DropTitles(_)
DropTitles(s) ==
    LET t == lstrip(s)
    IN IF \E i \in DOMAIN TITLES : TitleMatches(TITLES[i], t)
       THEN DropTitles(StripTitle(t))
       ELSE t

LettersOf(s) == SelectSeq(DropTitles(lower(s)), IsLowerAlpha)

C12_Case ==
    nmOut.done => /\ normalize_name(upper(nmIn)) = nmOut.name_norm
                  /\ normalize_name(lower(nmIn)) = nmOut.name_norm

C12_Titles ==
    nmOut.done => \A t \in TitleForms : normalize_name(t \o nmIn) = nmOut.name_norm

C12_Punctuation ==
    nmOut.done => normalize_name(WithoutPunctuation(nmIn)) = nmOut.name_norm

C12_Whitespace ==
    nmOut.done => /\ normalize_name(DoubleSpaces(nmIn)) = nmOut.name_norm
                  /\ normalize_name(<<" ">> \o nmIn \o <<" ">>) = nmOut.name_norm

C12_Letters ==
    nmOut.done =>
        /\ \A y \in NameBodies :
              LettersOf(y) # LettersOf(nmIn) => normalize_name(y) # nmOut.name_norm
        /\ normalize_name(<<"D","r","."," ">> \o sJaneOBrienSmith)
              = normalize_name(upper(sJaneOBrienSmith))
        /\ normalize_name(sJaneSmith) # normalize_name(upper(sJaneOBrienSmith))

\* C12: the normalized form of a name is the same for every way of writing the
\* name that differs only in letter case, in honorific titles in front of it
\* (with or without a period), in punctuation other than hyphen and apostrophe
\* or in the amount of whitespace, and differs between names whose letters
\* differ; "Dr. Jane O'Brien-Smith" and "JANE O'BRIEN-SMITH" normalize alike
\* and both unlike "Jane Smith".
C12_NormalizationClasses ==
    /\ C12_Case
    /\ C12_Titles
    /\ C12_Punctuation
    /\ C12_Whitespace
    /\ C12_Letters

-----------------------------------------------------------------------------
(* gp_fuzzy_search.py: strings, similarity and postcode distance *)

\* Python's `sub in s`
Contains(sub, s) ==
    \E i \in 0..(Len(s) - Len(sub)) : SubSeq(s, i + 1, i + Len(sub)) = sub

\* Python's s.split(): the words between runs of whitespace
RECURSIVE split(_)
split(s) ==
    LET t == lstrip(s)
    IN IF t = <<>> THEN <<>>
       ELSE LET n == Min({k \in 1..Len(t) : k = Len(t) \/ IsSpace(t[k + 1])})
            IN <<SubSeq(t, 1, n)>> \o split(SubSeq(t, n + 1, Len(t)))

\* s[:n]
Prefix(s, n) == SubSeq(s, 1, IF n < Len(s) THEN n ELSE Len(s))

\* Scores are kept exact, as fractions in lowest terms
RECURSIVE GCD(_, _)
GCD(a, b) == IF b = 0 THEN a ELSE GCD(b, a % b)

Frac(n, d) ==
    LET g == GCD(IF n < 0 THEN -n ELSE n, d)
    IN [num |-> n \div g, den |-> d \div g]

FracAdd(a, b) == Frac(a.num * b.den + b.num * a.den, a.den * b.den)
FracTimes(a, k) == Frac(a.num * k, a.den)
FracLess(a, b) == a.num * b.den < b.num * a.den
FracLeq(a, b) == a.num * b.den <= b.num * a.den

Max(S) == CHOOSE m \in S : \A n \in S : m >= n

\* The length of the longest common run of a from i and b from j
RECURSIVE CommonRun(_, _, _, _)
CommonRun(a, b, i, j) ==
    IF i > Len(a) \/ j > Len(b) \/ a[i] # b[j] THEN 0
    ELSE 1 + CommonRun(a, b, i + 1, j + 1)

\* SequenceMatcher.find_longest_match: the longest block, the earliest in a
\* and then the earliest in b among the longest
LongestMatch(a, b) ==
    LET size == [p \in (1..Len(a)) \X (1..Len(b)) |-> CommonRun(a, b, p[1], p[2])]
        k == Max({size[p] : p \in DOMAIN size})
        i == Min({p[1] : p \in {q \in DOMAIN size : size[q] = k}})
        j == Min({p[2] : p \in {q \in DOMAIN size : size[q] = k /\ q[1] = i}})
    IN [i |-> i, j |-> j, k |-> k]

\* The total size of SequenceMatcher.get_matching_blocks
RECURSIVE Matches(_, _)
Matches(a, b) ==
    IF a = <<>> \/ b = <<>> THEN 0
    ELSE LET m == LongestMatch(a, b)
         IN IF m.k = 0 THEN 0
            ELSE m.k + Matches(SubSeq(a, 1, m.i - 1), SubSeq(b, 1, m.j - 1))
                     + Matches(SubSeq(a, m.i + m.k, Len(a)), SubSeq(b, m.j + m.k, Len(b)))

\* SequenceMatcher(None, a, b).ratio()
SequenceRatio(a, b) ==
    IF Len(a) + Len(b) = 0 THEN Frac(1, 1) ELSE Frac(2 * Matches(a, b), Len(a) + Len(b))

fuzzy_match_score(query, target) ==
    IF ~TruthyStr(query) \/ ~TruthyStr(target) THEN Frac(0, 1)
    ELSE LET query_upper == strip(upper(query))
             target_upper == strip(upper(target))
             query_words == Range(split(query_upper))
             target_words == Range(split(target_upper))
             common_words == query_words \cap target_words
         IN IF query_upper = target_upper THEN Frac(1, 1)
            ELSE IF Contains(query_upper, target_upper) THEN Frac(8, 10)
            ELSE IF query_words \subseteq target_words THEN Frac(7, 10)
            ELSE IF common_words # {}
                 THEN Frac(Cardinality(common_words), 2 * Cardinality(query_words))
            ELSE LET r == SequenceRatio(query_upper, target_upper)
                 IN Frac(r.num * 6, r.den * 10)

\* p.split()[0] if ' ' in p else p[:4]
District(p) == IF Contains(<<" ">>, p) THEN split(p)[1] ELSE Prefix(p, 4)

postcode_distance(postcode1, postcode2) ==
    IF ~TruthyStr(postcode1) \/ ~TruthyStr(postcode2) THEN 100
    ELSE LET p1 == strip(upper(postcode1))
             p2 == strip(upper(postcode2))
         IN IF p1 = p2 THEN 0
            ELSE IF District(p1) = District(p2) THEN 1
            ELSE IF Prefix(District(p1), 2) = Prefix(District(p2), 2) THEN 5
            ELSE 10

-----------------------------------------------------------------------------
(* gp_fuzzy_search.py: the registry and GPFuzzySearch.search *)

sTheHealthCentre == <<"T","H","E"," ","H","E","A","L","T","H"," ","C","E","N","T","R","E">>
sBowersPlace == <<"B","O","W","E","R","S"," ","P","L","A","C","E">>
sCrawley == <<"C","R","A","W","L","E","Y">>
sRH104HD == <<"R","H","1","0"," ","4","H","D">>
sWaysideSurgery == <<"W","A","Y","S","I","D","E"," ","S","U","R","G","E","R","Y">>
sHighSt == <<"H","I","G","H"," ","S","T">>
sRH69EP == <<"R","H","6"," ","9","E","P">>
sParkSurgery == <<"P","a","r","k"," ","S","u","r","g","e","r","y">>
sParkRd == <<"P","A","R","K"," ","R","D">>
sRH67AA == <<"R","H","6"," ","7","A","A">>
sMenfield == <<"M","E","N","F","I","E","L","D">>
sLowRd == <<"L","O","W"," ","R","D">>
sRH138JT == <<"R","H","1","3"," ","8","J","T">>
sHealthCentreHint == <<"H","e","a","l","t","h"," ","C","e","n","t","r","e">>
sMenfeld == <<"M","e","n","f","e","l","d">>
sParkMedical == <<"P","A","R","K"," ","M","E","D","I","C","A","L">>
sHighStreet == <<"h","i","g","h"," ","s","t","r","e","e","t">>
sRH10Lower == <<"r","h","1","0"," ","4","h","d">>
sRH13 == <<"R","H","1","3">>
sBN11AA == <<"B","N","1"," ","1","A","A">>
sDrCroucher == <<"D","r"," ","C","r","o","u","c","h","e","r">>
sHealthCentreKeyword == <<"H","E","A","L","T","H"," ","C","E","N","T","R","E">>
sHealthKeyword == <<"H","E","A","L","T","H">>
sSurgeryKeyword == <<"S","U","R","G","E","R","Y">>
sMedicalKeyword == <<"M","E","D","I","C","A","L">>

\* A row of gp_practices_bulk as the bulk importer stores it
RegistryRow(ods_code, name, address_1, address_2, postcode, phone) ==
    [ods_code |-> ods_code,
     name |-> name,
     name_upper |-> upper(name),
     address_1 |-> address_1,
     address_2 |-> address_2,
     address_3 |-> <<>>,
     postcode |-> postcode,
     postcode_district |-> IF postcode # <<>> THEN split(postcode)[1] ELSE <<>>,
     phone |-> phone]

\* The registry of the model, in rowid order
gp_practices_bulk ==
    << RegistryRow("H1", sTheHealthCentre, sBowersPlace, sCrawley, sRH104HD, "01293"),
       RegistryRow("H2", sWaysideSurgery, sHighSt, <<>>, sRH69EP, ""),
       RegistryRow("H3", sParkSurgery, sParkRd, sBowersPlace, sRH67AA, ""),
       RegistryRow("H4", sMenfield, sLowRd, <<>>, sRH138JT, ""),
       RegistryRow("H5", sMenfield, sHighSt, <<>>, <<>>, "") >>

\* patient_postcode.upper().split()[0] raises IndexError on an all-blank code
SearchRaises(patient_postcode) ==
    /\ TruthyStr(patient_postcode)
    /\ Contains(<<" ">>, patient_postcode)
    /\ split(upper(patient_postcode)) = <<>>

PatientDistrict(patient_postcode) ==
    IF ~TruthyStr(patient_postcode) THEN None
    ELSE IF Contains(<<" ">>, patient_postcode) THEN split(upper(patient_postcode))[1]
    ELSE Prefix(patient_postcode, 4)

Candidate(row, source) ==
    [ods_code |-> row.ods_code, name |-> row.name, address_1 |-> row.address_1,
     address_2 |-> row.address_2, address_3 |-> row.address_3,
     postcode |-> row.postcode, phone |-> row.phone, source |-> source]

\* Strategy 1: WHERE postcode_district = ?
CandidatesByDistrict(patient_postcode) ==
    LET patient_district == PatientDistrict(patient_postcode)
        rows == SelectSeq(gp_practices_bulk,
                          LAMBDA r : r.postcode_district = patient_district)
    IN IF TruthyStr(patient_district)
       THEN [k \in DOMAIN rows |-> Candidate(rows[k], <<"postcode_area">>)]
       ELSE <<>>

\* Strategy 2 for the words of the hint: WHERE name_upper LIKE '%word%'
RECURSIVE CandidatesByNameWords(_)
CandidatesByNameWords(words) ==
    IF words = <<>> THEN <<>>
    ELSE LET word == Head(words)
             rows == SelectSeq(gp_practices_bulk,
                               LAMBDA r : Contains(word, upper(r.name_upper)))
         IN (IF Len(word) > 3
             THEN [k \in DOMAIN rows |-> Candidate(rows[k], <<"name_match", word>>)]
             ELSE <<>>) \o CandidatesByNameWords(Tail(words))

\* Strategy 3 for the words of the hint: WHERE address_1 LIKE ? OR address_2
\* LIKE ? OR address_3 LIKE ?
RECURSIVE CandidatesByAddressWords(_)
CandidatesByAddressWords(words) ==
    IF words = <<>> THEN <<>>
    ELSE LET word == Head(words)
             rows == SelectSeq(gp_practices_bulk,
                               LAMBDA r : \/ Contains(word, upper(r.address_1))
                                          \/ Contains(word, upper(r.address_2))
                                          \/ Contains(word, upper(r.address_3)))
         IN (IF Len(word) > 3
             THEN [k \in DOMAIN rows |-> Candidate(rows[k], <<"address_match", word>>)]
             ELSE <<>>) \o CandidatesByAddressWords(Tail(words))

\* The candidates list before it is deduplicated
Candidates(practice_hint, address_hint, patient_postcode) ==
    CandidatesByDistrict(patient_postcode)
        \o (IF TruthyStr(practice_hint)
            THEN CandidatesByNameWords(split(upper(practice_hint))) ELSE <<>>)
        \o (IF TruthyStr(address_hint)
            THEN CandidatesByAddressWords(split(upper(address_hint))) ELSE <<>>)

\* Variant: every candidate is kept
DedupeNone(candidates) == candidates

\* seen[ods_code] = candidate for the first candidate of every ods_code
RECURSIVE Dedupe(_)
Dedupe(candidates) ==
    IF candidates = <<>> THEN <<>>
    ELSE <<Head(candidates)>>
            \o Dedupe(SelectSeq(Tail(candidates),
                                LAMBDA c : c.ods_code # Head(candidates).ods_code))

\* Variant: the proximity is taken with the wrong sign
ProximityScoreSignError(patient_postcode, postcode) ==
    Frac(postcode_distance(patient_postcode, postcode) - 10, 10)

\* max(0, 10 - distance) / 10.0
ProximityScore(patient_postcode, postcode) ==
    LET distance == postcode_distance(patient_postcode, postcode)
    IN Frac(IF 10 - distance > 0 THEN 10 - distance ELSE 0, 10)

Half == Frac(1, 2)

\* The body of `for candidate in seen.values()`: the SearchResult of a candidate.
\* A reason is the text of the f-string with the sub-score it prints.
ScoreCandidate(candidate, practice_hint, address_hint, patient_postcode) ==
    LET name_score == fuzzy_match_score(practice_hint, candidate.name)
        full_address == candidate.address_1 \o <<" ">> \o candidate.address_2
                            \o <<" ">> \o candidate.address_3
        addr_score == fuzzy_match_score(address_hint, full_address)
        proximity_score == ProximityScore(patient_postcode, candidate.postcode)
        by_name == TruthyStr(practice_hint)
        by_address == TruthyStr(address_hint)
        by_postcode == TruthyStr(patient_postcode) /\ TruthyStr(candidate.postcode)
        both == /\ by_name
                /\ by_address
                /\ Contains(upper(practice_hint), upper(candidate.name))
                /\ Contains(upper(address_hint),
                            upper(candidate.address_1 \o <<" ">> \o candidate.address_2))
        health == /\ by_name
                  /\ Contains(sHealthCentreKeyword, upper(practice_hint))
                  /\ Contains(sHealthKeyword, upper(candidate.name))
        surgery == /\ by_name
                   /\ Contains(sSurgeryKeyword, upper(practice_hint))
                   /\ Contains(sSurgeryKeyword, upper(candidate.name))
        medical == /\ by_name
                   /\ Contains(sMedicalKeyword, upper(practice_hint))
                   /\ Contains(sMedicalKeyword, upper(candidate.name))
        score == FracAdd(FracAdd(FracAdd(
                     IF by_name THEN FracTimes(name_score, 40) ELSE Frac(0, 1),
                     IF by_address THEN FracTimes(addr_score, 30) ELSE Frac(0, 1)),
                     IF by_postcode THEN FracTimes(proximity_score, 20) ELSE Frac(0, 1)),
                     Frac((IF both THEN 20 ELSE 0) + (IF health THEN 5 ELSE 0)
                            + (IF surgery THEN 5 ELSE 0) + (IF medical THEN 5 ELSE 0), 1))
        match_reasons ==
            (IF by_name /\ FracLess(Half, name_score)
             THEN << <<"Name match", name_score>> >> ELSE <<>>)
            \o (IF by_address /\ FracLess(Half, addr_score)
                THEN << <<"Address match", addr_score>> >> ELSE <<>>)
            \o (IF by_postcode /\ FracLess(Half, proximity_score)
                THEN << <<"Near patient", proximity_score>> >> ELSE <<>>)
            \o (IF both THEN << <<"Both name and address match">> >> ELSE <<>>)
            \o (IF health THEN << <<"Health Centre match">> >> ELSE <<>>)
            \o (IF surgery THEN << <<"Surgery match">> >> ELSE <<>>)
            \o (IF medical THEN << <<"Medical Centre match">> >> ELSE <<>>)
    IN [ods_code |-> candidate.ods_code,
        name |-> candidate.name,
        address_1 |-> candidate.address_1,
        address_2 |-> candidate.address_2,
        postcode |-> candidate.postcode,
        phone |-> candidate.phone,
        score |-> score,
        match_reasons |-> match_reasons]

\* results.sort(key=lambda x: x.score, reverse=True): stable, greatest first
RECURSIVE SortByScore(_)
SortByScore(results) ==
    IF results = <<>> THEN <<>>
    ELSE LET front == SortByScore(SubSeq(results, 1, Len(results) - 1))
             x == results[Len(results)]
             n == Cardinality({k \in DOMAIN front : FracLeq(x.score, front[k].score)})
         IN SubSeq(front, 1, n) \o <<x>> \o SubSeq(front, n + 1, Len(front))

\* results[:limit]
Slice(results, limit) ==
    IF limit >= 0 THEN Prefix(results, limit)
    ELSE Prefix(results, IF Len(results) + limit > 0 THEN Len(results) + limit ELSE 0)

\* Python's s.replace(sub, "")
RECURSIVE Remove(_, _)
Remove(s, sub) ==
    IF Len(s) < Len(sub) THEN s
    ELSE IF IsPrefix(sub, s) THEN Remove(SubSeq(s, Len(sub) + 1, Len(s)), sub)
    ELSE <<Head(s)>> \o Remove(Tail(s), sub)

\* The last word of the name without "DR.", "DR" and "DOCTOR", or None
SurnameOf(gp_name) ==
    IF ~TruthyStr(gp_name) THEN None
    ELSE LET parts == split(strip(Remove(Remove(Remove(upper(gp_name),
                                <<"D","R",".">>), <<"D","R">>),
                                <<"D","O","C","T","O","R">>)))
         IN IF parts = <<>> THEN None ELSE parts[Len(parts)]

\* Variant: the surname is searched like a word of the practice hint
SearchBySurname(gp_name, practice_hint, address_hint, patient_postcode, limit) ==
    LET gp_surname == SurnameOf(gp_name)
        seen == Dedupe(Candidates(practice_hint, address_hint, patient_postcode)
                       \o (IF gp_surname # None
                           THEN CandidatesByNameWords(<<gp_surname>>) ELSE <<>>))
        results == [k \in DOMAIN seen |->
                       ScoreCandidate(seen[k], practice_hint, address_hint,
                                      patient_postcode)]
    IN Slice(SortByScore(results), limit)

\* GPFuzzySearch.search for a postcode it does not raise on.  gp_name only
\* yields gp_surname, which nothing reads.
search(gp_name, practice_hint, address_hint, patient_postcode, limit) ==
    LET gp_surname == SurnameOf(gp_name)
        seen == Dedupe(Candidates(practice_hint, address_hint, patient_postcode))
        results == [k \in DOMAIN seen |->
                       ScoreCandidate(seen[k], practice_hint, address_hint,
                                      patient_postcode)]
    IN Slice(SortByScore(results), limit)

-----------------------------------------------------------------------------
(* GPFuzzySearch.search on its own: the hints are drawn from small sets *)

MaxLimit == 3

PracticeHints == {None, sTheHealthCentre, sHealthCentreHint, sWaysideSurgery, sMenfeld, sParkMedical}
AddressHints == {None, sBowersPlace, sHighStreet, sHighSt}
PostcodeHints == {None, sRH104HD, sRH10Lower, sRH69EP, sRH13, sBN11AA, sBlank}
NameHints == {None, sDrCroucher}

InitFuzzy ==
    /\ IngestIdle
    /\ OverrideIdle
    /\ NormalizeIdle
    /\ MatcherIdle
    /\ fzIn \in [gp_name : NameHints, practice_hint : PracticeHints,
                 address_hint : AddressHints, patient_postcode : PostcodeHints,
                 limit : 0..MaxLimit]
    /\ fzOut = NoResult

\* searcher.search(...) returns
Search ==
    /\ ~fzOut.done
    /\ ~SearchRaises(fzIn.patient_postcode)
    /\ fzOut' = [done |-> TRUE, raised |-> FALSE,
                 results |-> search(fzIn.gp_name, fzIn.practice_hint, fzIn.address_hint,
                                    fzIn.patient_postcode, fzIn.limit)]
    /\ UNCHANGED fzIn

\* searcher.search(...) raises IndexError
SearchError ==
    /\ ~fzOut.done
    /\ SearchRaises(fzIn.patient_postcode)
    /\ fzOut' = [done |-> TRUE, raised |-> TRUE, results |-> <<>>]
    /\ UNCHANGED fzIn

NextFuzzy == (Search \/ SearchError) /\ UNCHANGED <<ingestVars, ovVars, nmVars, gmVars>>

SpecFuzzy == InitFuzzy /\ [][NextFuzzy]_vars

Returned == fzOut.done /\ ~fzOut.raised

-----------------------------------------------------------------------------
(* C13: a correct postcode hint never lowers the winner's score *)

FullLimit == Len(gp_practices_bulk)

\* The postcode hints that name the postcode of a registry row
MatchingHints(postcode) ==
    {h \in PostcodeHints \ {None} :
        ~SearchRaises(h) /\ postcode_distance(h, postcode) = 0}

WithHint(h) ==
    search(fzIn.gp_name, fzIn.practice_hint, fzIn.address_hint, h, FullLimit)

\* C13: whenever a search without a postcode hint has returned a winner, the
\* same name and address hints searched again with a postcode hint that
\* matches the winner's postcode still return the winner, with a score that
\* is not lower, and the top score of that list is not lower than the top
\* score without the hint.
C13_PostcodeHintMonotone ==
    (Returned /\ fzIn.patient_postcode = None /\ fzOut.results # <<>>) =>
        LET winner == fzOut.results[1]
        IN \A h \in MatchingHints(winner.postcode) :
              LET hinted == WithHint(h)
              IN /\ \E k \in DOMAIN hinted :
                        /\ hinted[k].ods_code = winner.ods_code
                        /\ FracLeq(winner.score, hinted[k].score)
                 /\ FracLeq(winner.score, hinted[1].score)

\* A winner found by its name and address, whose score a matching lower-case
\* postcode hint raises
C13_Witness ==
    /\ Returned
    /\ fzIn.patient_postcode = None
    /\ fzOut.results # <<>>
    /\ fzOut.results[1].ods_code = "H1"
    /\ FracLess(Frac(0, 1), fzOut.results[1].score)
    /\ sRH10Lower \in MatchingHints(fzOut.results[1].postcode)
    /\ FracLess(fzOut.results[1].score, WithHint(sRH10Lower)[1].score)

-----------------------------------------------------------------------------
(* C14: the result list is ranked, bounded and free of duplicates *)

\* The candidates of the query before de-duplication
RawCandidates == Candidates(fzIn.practice_hint, fzIn.address_hint, fzIn.patient_postcode)

TimesProduced(ods_code) ==
    Cardinality({k \in DOMAIN RawCandidates : RawCandidates[k].ods_code = ods_code})

\* C14: a search that returns gives at most `limit` results, each score at
\* least the score of the result after it, and no ods_code twice, however
\* many candidate queries produced the same registry row.
C14_RankedAndUnique ==
    Returned =>
        /\ Len(fzOut.results) <= fzIn.limit
        /\ \A k \in 1..(Len(fzOut.results) - 1) :
              FracLeq(fzOut.results[k + 1].score, fzOut.results[k].score)
        /\ \A j, k \in DOMAIN fzOut.results :
              fzOut.results[j].ods_code = fzOut.results[k].ods_code => j = k

\* A list cut at the limit, with falling scores, whose first row was produced
\* by the district query, a name word and an address word
C14_Witness ==
    /\ Returned
    /\ Len(fzOut.results) = fzIn.limit
    /\ Len(fzOut.results) >= 2
    /\ Len(Dedupe(RawCandidates)) > fzIn.limit
    /\ TimesProduced(fzOut.results[1].ods_code) >= 3
    /\ \A strategy \in {"postcode_area", "name_match", "address_match"} :
          \E k \in DOMAIN RawCandidates :
             /\ RawCandidates[k].ods_code = fzOut.results[1].ods_code
             /\ RawCandidates[k].source[1] = strategy
    /\ FracLess(fzOut.results[2].score, fzOut.results[1].score)

-----------------------------------------------------------------------------
(* C16: match_reasons against the amounts that make up the score *)

RegistryRowOf(ods_code) ==
    gp_practices_bulk[CHOOSE k \in DOMAIN gp_practices_bulk :
                          gp_practices_bulk[k].ods_code = ods_code]

\* The amount the name hint added to the score of a result
NameAmount(result) ==
    IF TruthyStr(fzIn.practice_hint)
    THEN FracTimes(fuzzy_match_score(fzIn.practice_hint, result.name), 40)
    ELSE Frac(0, 1)

\* The amount the address hint added to the score of a result
AddressAmount(result) ==
    LET row == RegistryRowOf(result.ods_code)
    IN IF TruthyStr(fzIn.address_hint)
       THEN FracTimes(fuzzy_match_score(fzIn.address_hint,
                          row.address_1 \o <<" ">> \o row.address_2 \o <<" ">> \o row.address_3), 30)
       ELSE Frac(0, 1)

\* The amount the postcode hint added to the score of a result
ProximityAmount(result) ==
    IF TruthyStr(fzIn.patient_postcode) /\ TruthyStr(result.postcode)
    THEN FracTimes(ProximityScore(fzIn.patient_postcode, result.postcode), 20)
    ELSE Frac(0, 1)

\* Whether the keyword bonus of a reason was added to the score of a result
BonusAdded(result, reason) ==
    LET row == RegistryRowOf(result.ods_code)
        hint == upper(fzIn.practice_hint)
    IN /\ TruthyStr(fzIn.practice_hint)
       /\ CASE reason = "Both name and address match" ->
                  /\ TruthyStr(fzIn.address_hint)
                  /\ Contains(hint, upper(row.name))
                  /\ Contains(upper(fzIn.address_hint),
                              upper(row.address_1 \o <<" ">> \o row.address_2))
            [] reason = "Health Centre match" ->
                  Contains(sHealthCentreKeyword, hint) /\ Contains(sHealthKeyword, upper(row.name))
            [] reason = "Surgery match" ->
                  Contains(sSurgeryKeyword, hint) /\ Contains(sSurgeryKeyword, upper(row.name))
            [] reason = "Medical Centre match" ->
                  Contains(sMedicalKeyword, hint) /\ Contains(sMedicalKeyword, upper(row.name))

BonusReasons ==
    {"Both name and address match", "Health Centre match", "Surgery match",
     "Medical Centre match"}

Names(result, reason) ==
    \E k \in DOMAIN result.match_reasons : result.match_reasons[k][1] = reason

Positive(amount) == FracLess(Frac(0, 1), amount)

\* C16: in every result of a search that returns, match_reasons names the
\* name match when the name hint added a positive amount to the score, the
\* address match when the address hint did, and the nearness to the patient
\* when the postcode hint did, and every keyword bonus that was added.
C16_ReasonsNameEverySignal ==
    Returned =>
        \A k \in DOMAIN fzOut.results :
            LET result == fzOut.results[k]
            IN /\ Positive(NameAmount(result)) => Names(result, "Name match")
               /\ Positive(AddressAmount(result)) => Names(result, "Address match")
               /\ Positive(ProximityAmount(result)) => Names(result, "Near patient")
               /\ \A reason \in BonusReasons :
                     BonusAdded(result, reason) => Names(result, reason)

\* The score of a result is the sum of the amounts of its signals
ScoreIsSumOfAmounts ==
    Returned =>
        \A k \in DOMAIN fzOut.results :
            LET result == fzOut.results[k]
                bonuses == 20 * Cardinality({r \in {"Both name and address match"} : BonusAdded(result, r)})
                           + 5 * Cardinality({r \in BonusReasons \ {"Both name and address match"} : BonusAdded(result, r)})
            IN result.score = FracAdd(FracAdd(FracAdd(NameAmount(result), AddressAmount(result)),
                                              ProximityAmount(result)), Frac(bonuses, 1))

\* The reasons the code does give: a similarity is named exactly when its
\* sub-score is above one half, a bonus exactly when it was added
ReasonsNameStrongSignals ==
    Returned =>
        \A k \in DOMAIN fzOut.results :
            LET result == fzOut.results[k]
            IN /\ Names(result, "Name match") <=> FracLess(Frac(20, 1), NameAmount(result))
               /\ Names(result, "Address match") <=> FracLess(Frac(15, 1), AddressAmount(result))
               /\ Names(result, "Near patient") <=> FracLess(Frac(10, 1), ProximityAmount(result))
               /\ \A reason \in BonusReasons :
                     Names(result, reason) <=> BonusAdded(result, reason)

-----------------------------------------------------------------------------
(* gp_matcher.py: GPMatcher over the rows of extracted_addresses, and
   GPFuzzySearch.find_practice_for_extraction *)

NullCode == "NULL"

manual_review_threshold == 30
default_confidence_threshold == 40
\* --confidence: below, at and above the default
ConfidenceThresholds == {25, default_confidence_threshold, 50}

\* A row of extracted_addresses: the columns the matcher reads or writes
AddressRow(gp_name, gp_practice, gp_address, postcode, gp_ods_code) ==
    [gp_name |-> gp_name, gp_practice |-> gp_practice, gp_address |-> gp_address,
     postcode |-> postcode, gp_postcode |-> None, gp_ods_code |-> gp_ods_code,
     gp_official_name |-> None]

RowKinds ==
    { AddressRow(None, sWaysideSurgery, None, sRH69EP, NullCode),
      AddressRow(sDrCroucher, None, sHighSt, None, NullCode),
      AddressRow(sDrCroucher, None, None, sRH69EP, NullCode),
      AddressRow(sDrCroucher, None, sBowersPlace, sRH104HD, NullCode),
      AddressRow(None, None, sHighSt, None, NullCode),
      AddressRow(<<>>, None, sHighSt, None, NullCode),
      AddressRow(None, sWaysideSurgery, None, sRH69EP, "H4") }

MatchRecords == 2

\* get_unmatched_gps: the groups of the unmatched rows with their counts
GroupKey(r) ==
    [gp_name |-> r.gp_name, gp_practice |-> r.gp_practice,
     gp_address |-> r.gp_address, patient_postcode |-> r.postcode]

UnmatchedRows(table) ==
    {k \in DOMAIN table :
        /\ (table[k].gp_name # None \/ table[k].gp_practice # None)
        /\ table[k].gp_ods_code = NullCode}

Groups(table) ==
    {[gp_name |-> g.gp_name, gp_practice |-> g.gp_practice, gp_address |-> g.gp_address,
      patient_postcode |-> g.patient_postcode,
      patient_count |-> Cardinality({k \in UnmatchedRows(table) : GroupKey(table[k]) = g})] :
        g \in {GroupKey(table[k]) : k \in UnmatchedRows(table)}}

\* ORDER BY patient_count DESC: groups of one count come in any order
get_unmatched_gps(table) ==
    LET groups == Groups(table)
    IN {f \in [1..Cardinality(groups) -> groups] :
           /\ \A j, k \in DOMAIN f : f[j] = f[k] => j = k
           /\ \A j, k \in DOMAIN f : j < k => f[j].patient_count >= f[k].patient_count}

NoMatch == [found |-> FALSE]

\* ', '.join(address_parts)
FullAddress(best_match) ==
    IF best_match.address_2 # <<>>
    THEN best_match.address_1 \o <<",", " ">> \o best_match.address_2
    ELSE best_match.address_1

\* The dict match_gp_practice returns for best_match
MatchDict(best_match) ==
    [found |-> TRUE, ods_code |-> best_match.ods_code,
     official_name |-> best_match.name, full_address |-> FullAddress(best_match),
     postcode |-> best_match.postcode, phone |-> best_match.phone,
     confidence |-> best_match.score, match_reasons |-> best_match.match_reasons]

\* `if results and results[0].score >= confidence_threshold`
BestMatch(results, confidence_threshold) ==
    IF results # <<>> /\ FracLeq(Frac(confidence_threshold, 1), results[1].score)
    THEN MatchDict(results[1])
    ELSE NoMatch

match_gp_practice(gp_ref, confidence_threshold) ==
    BestMatch(search(gp_ref.gp_name, gp_ref.gp_practice, gp_ref.gp_address,
                     gp_ref.patient_postcode, 3),
              confidence_threshold)

\* The WHERE clause of update_patient_records; FALSE when it has no condition
UpdateSelects(gp_ref, r) ==
    /\ TruthyStr(gp_ref.gp_name) \/ TruthyStr(gp_ref.gp_practice)
    /\ TruthyStr(gp_ref.gp_name) => r.gp_name = gp_ref.gp_name
    /\ TruthyStr(gp_ref.gp_practice) => r.gp_practice = gp_ref.gp_practice
    /\ r.gp_ods_code = NullCode

update_patient_records(table, gp_ref, match) ==
    [k \in DOMAIN table |->
        IF UpdateSelects(gp_ref, table[k])
        THEN [table[k] EXCEPT !.gp_ods_code = match.ods_code,
                              !.gp_official_name = match.official_name,
                              !.gp_address = match.full_address,
                              !.gp_postcode = match.postcode]
        ELSE table[k]]

\* extracted_data.get('postcode') or extracted_data.get('gp_postcode')
PostcodeOf(extracted_data) ==
    IF TruthyStr(extracted_data.postcode) THEN extracted_data.postcode
    ELSE extracted_data.gp_postcode

\* `if results and results[0].score > 30`
TopAbove30(results) ==
    IF results # <<>> /\ FracLess(Frac(30, 1), results[1].score)
    THEN [found |-> TRUE, result |-> results[1]]
    ELSE NoMatch

find_practice_for_extraction(extracted_data) ==
    TopAbove30(search(extracted_data.gp_name, extracted_data.gp_practice,
                      extracted_data.gp_address, PostcodeOf(extracted_data), 5))

NotAsked == [asked |-> FALSE]

InitMatch ==
    /\ IngestIdle
    /\ OverrideIdle
    /\ NormalizeIdle
    /\ FuzzyIdle
    /\ extracted_addresses \in [1..MatchRecords -> RowKinds]
    /\ \E ct \in ConfidenceThresholds :
          gm = [pc |-> "start", confidence_threshold |-> ct, unmatched |-> <<>>, cur |-> 0,
                match |-> NoMatch, review |-> NotAsked, lookup |-> [done |-> FALSE],
                auto_matched |-> 0, review_needed |-> 0, no_match |-> 0]

\* searcher.find_practice_for_extraction(row) for a row of the table
FindPractice(k) ==
    /\ gm.pc \in {"start", "done"}
    /\ ~gm.lookup.done
    /\ gm' = [gm EXCEPT !.lookup = [done |-> TRUE, extracted_data |-> extracted_addresses[k],
                                    outcome |-> find_practice_for_extraction(extracted_addresses[k])]]
    /\ UNCHANGED extracted_addresses

\* auto_match_all up to the loop: unmatched = self.get_unmatched_gps()
GetUnmatched ==
    /\ gm.pc = "start"
    /\ \E unmatched \in get_unmatched_gps(extracted_addresses) :
          gm' = [gm EXCEPT !.pc = "loop", !.unmatched = unmatched, !.cur = 1]
    /\ UNCHANGED extracted_addresses

InLoop == gm.pc = "loop" /\ gm.cur <= Len(gm.unmatched)

\* match = self.match_gp_practice(gp_ref, manual_review_threshold)
MatchReference ==
    /\ InLoop
    /\ gm' = [gm EXCEPT !.pc = "matched", !.review = NotAsked,
                        !.match = match_gp_practice(gm.unmatched[gm.cur],
                                                    manual_review_threshold)]
    /\ UNCHANGED extracted_addresses

\* The rest of the pass for a match of at least confidence_threshold
AutoAccept ==
    /\ gm.pc = "matched"
    /\ gm.match.found
    /\ FracLeq(Frac(gm.confidence_threshold, 1), gm.match.confidence)
    /\ extracted_addresses' =
          update_patient_records(extracted_addresses, gm.unmatched[gm.cur], gm.match)
    /\ gm' = [gm EXCEPT !.pc = "loop", !.cur = @ + 1, !.auto_matched = @ + 1]

\* The pass up to input(): the match is put to the reviewer
AskReviewer ==
    /\ gm.pc = "matched"
    /\ gm.match.found
    /\ ~FracLeq(Frac(gm.confidence_threshold, 1), gm.match.confidence)
    /\ gm' = [gm EXCEPT !.pc = "review"]
    /\ UNCHANGED extracted_addresses

\* The rest of the pass: response is input(...).lower().strip()
Review(response) ==
    /\ gm.pc = "review"
    /\ IF response = "y"
       THEN /\ extracted_addresses' =
                   update_patient_records(extracted_addresses, gm.unmatched[gm.cur], gm.match)
            /\ gm' = [gm EXCEPT !.pc = "loop", !.cur = @ + 1, !.auto_matched = @ + 1,
                                !.review = [asked |-> TRUE, response |-> response]]
       ELSE /\ UNCHANGED extracted_addresses
            /\ gm' = [gm EXCEPT !.pc = "loop", !.cur = @ + 1, !.review_needed = @ + 1,
                                !.review = [asked |-> TRUE, response |-> response]]

\* The rest of the pass when match_gp_practice returned None
NoMatchFound ==
    /\ gm.pc = "matched"
    /\ ~gm.match.found
    /\ gm' = [gm EXCEPT !.pc = "loop", !.cur = @ + 1, !.no_match = @ + 1]
    /\ UNCHANGED extracted_addresses

\* return auto_matched, review_needed, no_match
MatchSummary ==
    /\ gm.pc = "loop"
    /\ gm.cur > Len(gm.unmatched)
    /\ gm' = [gm EXCEPT !.pc = "done"]
    /\ UNCHANGED extracted_addresses

Responses == {"y", "n", "skip", ""}

NextMatch ==
    /\ \/ \E k \in 1..MatchRecords : FindPractice(k)
       \/ GetUnmatched
       \/ MatchReference
       \/ AutoAccept
       \/ AskReviewer
       \/ \E response \in Responses : Review(response)
       \/ NoMatchFound
       \/ MatchSummary
    /\ UNCHANGED <<ingestVars, ovVars, nmVars, fzVars>>

SpecMatch == InitMatch /\ [][NextMatch]_vars

-----------------------------------------------------------------------------
(* C15: what the matcher writes, and on which score *)

\* The ranked results for a reference of the unmatched list
ResultsFor(gp_ref) ==
    search(gp_ref.gp_name, gp_ref.gp_practice, gp_ref.gp_address, gp_ref.patient_postcode, 3)

RowsWritten == {k \in DOMAIN extracted_addresses : extracted_addresses'[k] # extracted_addresses[k]}

\* Every write to extracted_addresses is a pass of auto_match_all for a
\* reference whose top score is at least the review threshold; it is made
\* unasked only for a top score of at least confidence_threshold, and else
\* on the answer 'y'; the rows written had no gp_ods_code and get the top
\* result's
WriteStep ==
    RowsWritten # {} =>
        /\ gm.pc \in {"matched", "review"}
        /\ gm.cur \in DOMAIN gm.unmatched
        /\ LET results == ResultsFor(gm.unmatched[gm.cur])
               auto == Frac(gm.confidence_threshold, 1)
           IN /\ results # <<>>
              /\ FracLeq(Frac(manual_review_threshold, 1), results[1].score)
              /\ gm.pc = "matched" =>
                    FracLeq(auto, results[1].score) /\ ~gm'.review.asked
              /\ gm.pc = "review" =>
                    /\ FracLess(results[1].score, auto)
                    /\ gm'.review = [asked |-> TRUE, response |-> "y"]
              /\ \A k \in RowsWritten :
                    /\ extracted_addresses[k].gp_ods_code = NullCode
                    /\ extracted_addresses'[k].gp_ods_code = results[1].ods_code

\* find_practice_for_extraction returns the top result when its score is
\* above 30, and None otherwise
LookupOutcome ==
    gm.lookup.done =>
        LET data == gm.lookup.extracted_data
            results == search(data.gp_name, data.gp_practice, data.gp_address,
                              PostcodeOf(data), 5)
        IN IF results # <<>> /\ FracLess(Frac(30, 1), results[1].score)
           THEN gm.lookup.outcome = [found |-> TRUE, result |-> results[1]]
           ELSE gm.lookup.outcome = NoMatch

\* The passes of auto_match_all and the lookup, each taken by itself
PassesWriteOnScore == [][WriteStep]_vars /\ [](LookupOutcome)

\* The top score of the reference a row belongs to is at least t
OwnScoreAtLeast(r, t) ==
    LET results == ResultsFor(GroupKey(r))
    IN results # <<>> /\ FracLeq(Frac(t, 1), results[1].score)

\* C15: find_practice_for_extraction returns a result only when the top score
\* is above 30 and otherwise none; a patient record is written only if its
\* gp_ods_code is unset and the top score of its GP reference is at least the
\* review threshold, and it is written without a 'y' of the reviewer only if
\* that top score is at least the auto-accept threshold.
C15_NoSilentLowScoreLink ==
    /\ [][\A k \in RowsWritten :
             /\ extracted_addresses[k].gp_ods_code = NullCode
             /\ OwnScoreAtLeast(extracted_addresses[k], manual_review_threshold)
             /\ ~gm'.review.asked =>
                   OwnScoreAtLeast(extracted_addresses[k], gm.confidence_threshold)]_vars
    /\ [](LookupOutcome)

\* A match of score 30 that the lookup does not return, that auto_match_all
\* put to the reviewer and wrote on 'y', next to a row that had a code and kept it
ReviewedMatchWritten ==
    /\ gm.pc = "loop"
    /\ gm.review = [asked |-> TRUE, response |-> "y"]
    /\ gm.match.found
    /\ gm.match.confidence = Frac(30, 1)
    /\ gm.lookup.done
    /\ gm.lookup.extracted_data.gp_address = sHighSt
    /\ gm.lookup.outcome = NoMatch
    /\ \E j, k \in DOMAIN extracted_addresses :
          /\ extracted_addresses[j].gp_ods_code = gm.match.ods_code
          /\ extracted_addresses[j].gp_official_name = gm.match.official_name
          /\ extracted_addresses[k].gp_ods_code = "H4"
          /\ extracted_addresses[k].gp_official_name = None

\* A row written in the pass of another reference of the same gp_name, while
\* its own reference was counted as no match
LinkedByOtherReference ==
    /\ gm.pc = "done"
    /\ gm.no_match = 1
    /\ gm.auto_matched = 1
    /\ \A k \in DOMAIN extracted_addresses : extracted_addresses[k].gp_ods_code # NullCode

-----------------------------------------------------------------------------
(* C17: a fact file without "pages" *)

AtFileWithoutPages ==
    /\ Visiting
    /\ CurrentContent.kind = "json"
    /\ "pages" \notin DOMAIN CurrentContent.data

\* C17: when the loop is at a file that parses and has no "pages" key, the
\* call returns as a skip for lack of pages without opening a transaction,
\* no table changes in the transaction's view or in the committed database
\* (so no document row and no hash is written and the rows of an earlier
\* version stay), skipped goes up by one while errors and processed stay, and
\* the loop moves on to the next file.
C17_NoPagesSkipped ==
    [][AtFileWithoutPages =>
          /\ Returns("nopages")
          /\ tx' = tx
          /\ db' = db
          /\ stats' = [stats EXCEPT !.skipped = @ + 1]
          /\ pc' = "scan"
          /\ cur' = cur + 1]_vars

\* The first file of a later run has lost its "pages" key: it was skipped, the
\* rows of the version ingested before are still stored under the old hash,
\* and the loop is at the second file
C17_Witness ==
    /\ pc = "scan"
    /\ cur = 2
    /\ log = << <<"a", "nopages">> >>
    /\ stats = [processed |-> 0, skipped |-> 1, errors |-> 0]
    /\ ~HasPages(files["a"])
    /\ ingested["a"] # NoContent
    /\ tx = db
    /\ \E r \in db.documents :
          r.document_id = "a" /\ r.json_hash = file_hash(ingested["a"])
    /\ \E e \in db.extractions : e.document_id = "a"

-----------------------------------------------------------------------------
(* C19: entity rows are permanent *)

\* Every row of `old` is in `new` under the same id with the same identity
\* columns and a count that is not lower
SameEntity(old, new, identity) ==
    \A k \in DOMAIN old :
        /\ k \in DOMAIN new
        /\ \A c \in identity : new[k][c] = old[k][c]
        /\ new[k].document_count >= old[k].document_count

PatientIdentity == {"id", "full_name", "full_name_normalized", "date_of_birth", "first_seen_at"}
PractitionerIdentity == {"id", "full_name", "full_name_normalized", "type", "first_seen_at"}

EntitiesKept(old, new) ==
    /\ SameEntity(old.patients, new.patients, PatientIdentity)
    /\ SameEntity(old.practitioners, new.practitioners, PractitionerIdentity)

\* C19: no step of an ingestion or re-ingestion removes a committed patient
\* or practitioner row or changes its id, full_name, normalized name,
\* date_of_birth or type, or first_seen_at, nor lowers its document_count;
\* the same holds of the committed rows as an open transaction sees them.
C19_EntitiesPermanent == [][EntitiesKept(db, db')]_vars /\ [](EntitiesKept(db, tx))

\* A patient first seen in the first run and seen again in the second, by a
\* re-ingested document: the row kept its first_seen_at and has been counted
\* more often than it has documents
C19_Witness ==
    /\ pc = "idle"
    /\ run = 2
    /\ \E k \in DOMAIN db.patients :
          /\ db.patients[k].first_seen_at = 1
          /\ db.patients[k].last_seen_at = 2
          /\ db.patients[k].document_count >
                Cardinality({l \in db.patient_documents : l.patient_id = k})
    /\ \E k \in DOMAIN db.practitioners :
          /\ db.practitioners[k].first_seen_at = 1
          /\ db.practitioners[k].last_seen_at = 2

-----------------------------------------------------------------------------
(* C18: pages whose patient or practitioner name resolves to nothing *)

\* Missing, empty, blank, or nothing left after normalization
Unresolvable(name) == ~NonBlank(name) \/ normalize_name(name) = <<>>

RowsOfType(practitioners, prac_type) ==
    {r \in Range(practitioners) : r.type = prac_type}

\* What a turn of the page loop does for the names of its page that do not
\* resolve
PageTurnOfUnresolved ==
    (pc = "tx" /\ pc' = "tx") =>
        LET eff == EffectivePage(loc.override_map, loc.pages[loc.i])
            patient_name == Get(eff.patient, "full_name")
            gp_name == Get(eff.gp, "name")
            specialist == eff.eff_address_type = "specialist"
            deciding == IF specialist /\ TruthyStr(eff.eff_specialist)
                        THEN eff.eff_specialist ELSE gp_name
            written == {e \in tx'.extractions :
                           /\ e.document_id = loc.document_id
                           /\ e.page_number = eff.page_number
                           /\ e.address_type = eff.eff_address_type}
        IN /\ loc'.i = loc.i + 1
           /\ Cardinality(written) = 1
           /\ Unresolvable(patient_name) =>
                 /\ tx'.patients = tx.patients
                 /\ \A e \in written : e.patient_id = NoId
                 /\ loc'.seen_patients = loc.seen_patients
                 /\ loc'.page_patients = loc.page_patients
           /\ Unresolvable(gp_name) =>
                 RowsOfType(tx'.practitioners, "GP") = RowsOfType(tx.practitioners, "GP")
           /\ (~specialist \/ Unresolvable(eff.eff_specialist)) =>
                 RowsOfType(tx'.practitioners, "Consultant")
                    = RowsOfType(tx.practitioners, "Consultant")
           /\ Unresolvable(deciding) =>
                 /\ \A e \in written : e.practitioner_id = NoId
                 /\ loc'.seen_practitioners = loc.seen_practitioners
                 /\ loc'.page_practitioners = loc.page_practitioners

\* No link row stands for a missing entity
NoLinkOfNoEntity ==
    /\ \A l \in tx.patient_documents : l.patient_id # NoId
    /\ \A l \in tx.patient_practitioners : l.patient_id # NoId /\ l.practitioner_id # NoId
    /\ \A k \in DOMAIN tx.patients : tx.patients[k].full_name_normalized # <<>>
    /\ \A k \in DOMAIN tx.practitioners : tx.practitioners[k].full_name_normalized # <<>>

\* C18: a turn of the page loop at a page whose patient name is missing,
\* empty, blank or normalizes to the empty string leaves the patients table
\* as it is, writes the page's extraction row with no patient_id and adds
\* no patient to the sets the links are made from; likewise no practitioner
\* row of the type is created or updated for such a practitioner name, the
\* extraction row has no practitioner_id and nothing is added to the
\* practitioner sets when the name that decides the reference is such a
\* name; the turn ends with the next page in hand, and no link row ever
\* refers to a missing entity.
C18_NoEntityForBlankName == [][PageTurnOfUnresolved]_vars /\ [](NoLinkOfNoEntity)

\* A document with a blank, an empty, a title-only and a missing name has been
\* ingested: four extraction rows, three without patient, three without
\* practitioner, and the one patient it names is linked to the document
C18_Witness ==
    /\ pc = "scan"
    /\ LastOutcome = "processed"
    /\ Catalogue[ingested[LastDoc]] = FileBlankNames
    /\ LET rows == {e \in db.extractions : e.document_id = LastDoc}
       IN /\ Cardinality(rows) = 4
          /\ Cardinality({e \in rows : e.patient_id = NoId}) = 3
          /\ Cardinality({e \in rows : e.practitioner_id = NoId}) = 3
          /\ \E e \in rows : e.patient_id = NoId /\ e.practitioner_id # NoId
          /\ \E e \in rows : e.patient_full_name = sDrDot /\ e.specialist_name = sDrDot
    /\ Cardinality({l \in db.patient_documents : l.document_id = LastDoc}) = 1

-----------------------------------------------------------------------------
(* C20: the extraction rows of a document are those of its last ingestion *)

\* The effective pages of a content, in file order
EffectivePagesOf(c) ==
    LET data == Catalogue[c].data
        override_map == BuildOverrideMap(EmptyDict,
                            IF "overrides" \in DOMAIN data THEN data.overrides ELSE <<>>)
    IN [i \in DOMAIN data.pages |-> EffectivePage(override_map, data.pages[i])]

PageKey(eff) == <<eff.page_number, eff.eff_address_type>>

\* The last page of each (page_number, effective category)
LastPages(c) ==
    LET effs == EffectivePagesOf(c)
    IN {effs[i] : i \in {j \in DOMAIN effs :
                            \A k \in DOMAIN effs : PageKey(effs[k]) = PageKey(effs[j]) => k <= j}}

\* An extraction row without its two references
Values(e) == [col \in DOMAIN e \ {"patient_id", "practitioner_id"} |-> e[col]]

ExtractionsOf(store, d) == {e \in store.extractions : e.document_id = d}

\* The patient a row refers to is the one its page names, if it names one
RefersToPagePatient(store, e) ==
    IF Unresolvable(e.patient_full_name) THEN e.patient_id = NoId
    ELSE /\ e.patient_id \in DOMAIN store.patients
         /\ store.patients[e.patient_id].full_name_normalized
               = normalize_name(e.patient_full_name)

\* C20: for every document, the committed extraction rows are none before
\* its first successful ingestion and afterwards exactly one row per distinct
\* (page_number, effective category) of the content last ingested, each with
\* the column values of the last page of that key and a patient reference for
\* that page's patient name; so no row of an earlier version is left, and the
\* ingestion of one document leaves the rows of the others as they are.
C20_ExtractionsReplaced ==
    \A d \in DocIds :
        IF ingested[d] = NoContent THEN ExtractionsOf(db, d) = {}
        ELSE LET rows == ExtractionsOf(db, d)
                 last == LastPages(ingested[d])
             IN /\ {Values(e) : e \in rows}
                      = {Values(ExtractionRow(d, eff, NoId, NoId)) : eff \in last}
                /\ Cardinality(rows) = Cardinality({PageKey(eff) : eff \in last})
                /\ \A e \in rows : RefersToPagePatient(db, e)

\* The first document had three keys and was ingested again with two pages of
\* one key and a page whose category an override changes: two rows are left,
\* the row of page 1 holds the second page's values, page 2 is stored as
\* specialist, and the rows of the other document are in place
C20_Witness ==
    /\ pc = "scan"
    /\ run = 2
    /\ log = << <<"a", "processed">> >>
    /\ \A d \in DocIds : ingested[d] # NoContent
    /\ Catalogue[ingested["a"]] = FileSameKey
    /\ Catalogue[ingested["b"]] = FileBlankNames
    /\ \E k \in DOMAIN db.practitioners : db.practitioners[k].postcode = sP1
    /\ {<<e.page_number, e.address_type>> : e \in ExtractionsOf(db, "a")}
          = {<<1, "patient">>, <<2, "specialist">>}
    /\ \A e \in ExtractionsOf(db, "a") :
          e.page_number = 1 =>
              /\ e.patient_full_name = sAnnRoe
              /\ e.address_postcode_valid = "0"
              /\ e.extraction_confidence = None
    /\ Cardinality(ExtractionsOf(db, "b")) = 4

-----------------------------------------------------------------------------
(* C24 *)

\* The documents a patient is linked to, and the documents ingested so far
LinkedDocs(store, pid) ==
    {d \in DocIds : [patient_id |-> pid, document_id |-> d] \in store.patient_documents}

IngestedDocs == {d \in DocIds : ingested[d] # NoContent}

\* C24: the document_count of a patient is the number of distinct documents
\* the patient has been resolved from, and likewise for a practitioner: it is
\* never more than the number of documents ingested, never less than the
\* number of documents now linked to the patient, and equal to that number as
\* long as no file has been rewritten (every document was then ingested at
\* most once, and the links of a document are the patients resolved from it).
C24_CountsDocuments ==
    /\ \A i \in DOMAIN db.patients :
          /\ db.patients[i].document_count <= Cardinality(IngestedDocs)
          /\ db.patients[i].document_count >= Cardinality(LinkedDocs(db, i))
          /\ edits = 0 =>
                db.patients[i].document_count = Cardinality(LinkedDocs(db, i))
    /\ \A j \in DOMAIN db.practitioners :
          /\ db.practitioners[j].document_count <= Cardinality(IngestedDocs)
          /\ db.practitioners[j].document_count >= 1

\* The pages of the documents on which a patient was resolved, counted from
\* the extraction rows
ObservationsOf(store, pid) == Cardinality({e \in store.extractions : e.patient_id = pid})

\* What the counter does count while no file has been rewritten and no two
\* pages of a document share page number and category: the pages on which the
\* patient was resolved
CountsObservations ==
    edits = 0 =>
        \A i \in DOMAIN db.patients :
           db.patients[i].document_count = ObservationsOf(db, i)

-----------------------------------------------------------------------------
(* C25 *)

RelationshipOf(e) == IF e.address_type = "specialist" THEN "Consultant" ELSE "GP"

\* The links that the rows of a document support: a patient row and a
\* practitioner row of the same page_number, or the sole patient of the
\* document and any practitioner row
ContentLinks(store, d) ==
    LET rows == {e \in store.extractions : e.document_id = d}
        pats == {e.patient_id : e \in rows} \ {NoId}
        pairs == {x \in rows \X rows :
                     x[1].patient_id # NoId /\ x[2].practitioner_id # NoId}
        link(x) == <<x[1].patient_id, x[2].practitioner_id, RelationshipOf(x[2])>>
    IN {link(x) : x \in {y \in pairs : y[1].page_number = y[2].page_number}}
       \cup (IF Cardinality(pats) = 1 THEN {link(x) : x \in pairs} ELSE {})

SupportingDocs(store, l) ==
    {d \in DocIds :
        <<l.patient_id, l.practitioner_id, l.relationship_type>> \in ContentLinks(store, d)}

\* C25: the document_count of every patient_practitioners row is the number
\* of documents whose most recently ingested content links the row's patient
\* and practitioner with the row's relationship type.
C25_LinkCountsCurrent ==
    \A l \in db.patient_practitioners :
       l.document_count = Cardinality(SupportingDocs(db, l))

\* The same while no file has been rewritten
LinkCountsFirstIngestion == edits = 0 => C25_LinkCountsCurrent

-----------------------------------------------------------------------------
(* C26 *)

\* The page loop from the page the locals are at, then linking and commit
RECURSIVE RunPages(_, _, _)
RunPages(store, locals, now) ==
    IF locals.i > Len(locals.pages) THEN FinishDocument(store, locals, now).store
    ELSE LET r == ProcessPage(store, locals, locals.pages[locals.i], now)
         IN RunPages(r.store, r.locals, now)

\* _ingest_file for a file whose hash is not the stored one, when nothing raises
IngestFile(store, document_id, c, now) ==
    IF HasPages(c)
    THEN RunPages(BeginDocument(store, document_id, file_hash(c), Catalogue[c].data, now),
                  InitialLocals(document_id, Catalogue[c].data), now)
    ELSE store

\* The first run has processed both files
BothProcessed ==
    /\ RunOver
    /\ run = 1
    /\ \A d \in DocIds : \E k \in DOMAIN log : log[k] = <<d, "processed">>

\* The store of the first run, and the store had the files been visited in
\* the other order
InOrder == IngestFile(IngestFile(EmptyStore, "a", files["a"], 1), "b", files["b"], 1)
Swapped == IngestFile(IngestFile(EmptyStore, "b", files["b"], 1), "a", files["a"], 1)

ObservationKey(e) == <<e.document_id, e.page_number, e.address_type>>

\* Two stores group the page observations into patients in the same way
SameGrouping(s, t) ==
    /\ {ObservationKey(e) : e \in s.extractions} = {ObservationKey(e) : e \in t.extractions}
    /\ \A e1, e2 \in s.extractions, f1, f2 \in t.extractions :
          (ObservationKey(e1) = ObservationKey(f1) /\ ObservationKey(e2) = ObservationKey(f2))
             => /\ (e1.patient_id = NoId) = (f1.patient_id = NoId)
                /\ (e1.patient_id = e2.patient_id) = (f1.patient_id = f2.patient_id)

\* C26: ingesting two documents in either order gives the same number of
\* Patient rows and the same grouping of the page observations into patients:
\* when the first run over an empty store has processed both files, its store
\* has as many patients, grouped alike, as the store that results from the
\* other order.
C26_OrderIndependent ==
    BothProcessed =>
        /\ Len(db.patients) = Len(Swapped.patients)
        /\ SameGrouping(db, Swapped)

\* The steps of the run amount to the two ingestions in file order
RunIsInOrder == BothProcessed => db = InOrder

\* Two documents that name no common patient, or the same dated patient, come
\* out alike in both orders
OrderIndependentWhenDated ==
    (BothProcessed /\ \A e \in db.extractions :
                         e.patient_id # NoId => NonBlank(e.patient_date_of_birth))
        => /\ Len(db.patients) = Len(Swapped.patients)
           /\ SameGrouping(db, Swapped)

-----------------------------------------------------------------------------
(* C21 *)

\* The patients that the rows of a document refer to
PatientsOfRows(store, d) == {e.patient_id : e \in ExtractionsOf(store, d)} \ {NoId}

PatientLinksOf(store, d) == {l \in store.patient_documents : l.document_id = d}

\* C21: for every document, the committed patient_documents rows are none
\* before its first successful ingestion and afterwards exactly one row for
\* each patient that a page of the content last ingested resolved to (the
\* patients its extraction rows refer to), however many pages name the
\* patient; no row of an earlier version of the document is left.
C21_PatientLinksMirrorContent ==
    \A d \in DocIds :
        IF ingested[d] = NoContent THEN PatientLinksOf(db, d) = {}
        ELSE /\ {l.patient_id : l \in PatientLinksOf(db, d)} = PatientsOfRows(db, d)
             /\ Cardinality(PatientLinksOf(db, d)) = Cardinality(PatientsOfRows(db, d))
             /\ \A l \in PatientLinksOf(db, d) : l.patient_id \in DOMAIN db.patients

\* A document that named two patients was ingested again naming one of them on
\* two pages: it has one link, to that patient, and the other patient, still
\* in the table, is linked to no document
C21_Witness ==
    /\ pc = "idle"
    /\ \E d \in DocIds :
          /\ ingested[d] = 14
          /\ Cardinality(PatientLinksOf(db, d)) = 1
          /\ \E l \in PatientLinksOf(db, d) :
                Cardinality({e \in ExtractionsOf(db, d) : e.patient_id = l.patient_id}) = 2
    /\ \E i \in DOMAIN db.patients :
          /\ db.patients[i].full_name_normalized = normalize_name(sAnnRoe)
          /\ LinkedDocs(db, i) = {}

-----------------------------------------------------------------------------
(* C22 *)

\* The page turn in hand names a patient without a date of birth
TurnWithoutDob ==
    /\ pc = "tx"
    /\ loc.i <= Len(loc.pages)
    /\ LET eff == EffectivePage(loc.override_map, loc.pages[loc.i])
       IN /\ ~Unresolvable(Get(eff.patient, "full_name"))
          /\ ~NonBlank(Get(eff.patient, "date_of_birth"))

TurnName ==
    normalize_name(Get(EffectivePage(loc.override_map, loc.pages[loc.i]).patient, "full_name"))

\* The patient_id of the extraction row that the turn writes
TurnPatient(after) ==
    LET eff == EffectivePage(loc.override_map, loc.pages[loc.i])
    IN (CHOOSE e \in after.extractions :
           /\ e.document_id = loc.document_id
           /\ e.page_number = eff.page_number
           /\ e.address_type = eff.eff_address_type).patient_id

\* C22: an observation without a date of birth resolves to an existing
\* patient exactly when one row has its normalized name, whether that row has
\* a date of birth or not, and inserts nothing then; with no such row or with
\* two or more, a new row with NULL date_of_birth and document_count 1 is
\* inserted and returned, and every existing row stays as it is.
C22_NoDobMatchesLoneName ==
    [][(TurnWithoutDob /\ loc'.i = loc.i + 1)
          => LET same == PatientsNamed(tx, TurnName)
                 id == TurnPatient(tx')
             IN IF Cardinality(same) = 1
                THEN /\ id \in same
                     /\ Len(tx'.patients) = Len(tx.patients)
                ELSE /\ id = Len(tx.patients) + 1
                     /\ Len(tx'.patients) = Len(tx.patients) + 1
                     /\ tx'.patients[id].full_name_normalized = TurnName
                     /\ tx'.patients[id].date_of_birth = None
                     /\ tx'.patients[id].document_count = 1
                     /\ \A i \in DOMAIN tx.patients : tx'.patients[i] = tx.patients[i]]_vars

\* Two dated rows of a name were there; an observation of the name without a
\* date made a third row, and the next one, whose date of birth is blank, a
\* fourth
C22_Witness ==
    /\ pc = "tx"
    /\ \E i, j, k, m \in DOMAIN tx.patients :
          /\ i < j /\ j < k /\ k < m
          /\ \A n \in {i, j, k, m} :
                tx.patients[n].full_name_normalized = normalize_name(sJohnSmith)
          /\ tx.patients[i].date_of_birth = sDob
          /\ tx.patients[j].date_of_birth = sDobLater
          /\ tx.patients[k].date_of_birth = None /\ tx.patients[k].document_count = 1
          /\ tx.patients[m].date_of_birth = None /\ tx.patients[m].document_count = 1
          /\ \E e \in tx.extractions :
                e.patient_id = m /\ e.patient_date_of_birth = sBlank

\* The other two cases: no row of the name, and one dated row that the
\* undated observation joins
LoneNameJoined ==
    /\ pc = "tx"
    /\ \E i \in DOMAIN tx.patients :
          /\ PatientsNamed(tx, normalize_name(sJohnSmith)) = {i}
          /\ tx.patients[i].date_of_birth = sDob
          /\ \E e \in tx.extractions :
                e.patient_id = i /\ ~NonBlank(e.patient_date_of_birth)

-----------------------------------------------------------------------------
(* C23 *)

\* A patient row and a practitioner row of the document share a page_number
CoOccur(store, d, pid, prac_id, rel_type) ==
    \E e1, e2 \in ExtractionsOf(store, d) :
       /\ e1.page_number = e2.page_number
       /\ e1.patient_id = pid
       /\ e2.practitioner_id = prac_id
       /\ RelationshipOf(e2) = rel_type

\* The commit of a document whose pages resolved to two or more patients
MultiPatientCommit ==
    /\ pc = "tx"
    /\ pc' = "scan"
    /\ loc'.state = "committed"
    /\ Cardinality(PatientsOfRows(tx, loc.document_id)) >= 2

\* C23: the ingestion of a document whose pages resolved to two or more
\* patients inserts or increments the link (patient, practitioner,
\* relationship_type) exactly when the patient and the practitioner with that
\* relationship were resolved on pages of the same page_number; every other
\* link row stays as it is, so a practitioner of a page without patient gets
\* no link.
C23_LinkNeedsCoOccurrence ==
    [][MultiPatientCommit
          => \A pid \in 1..Len(db'.patients), prac_id \in 1..Len(db'.practitioners),
                rel_type \in {"GP", "Consultant"} :
                IF CoOccur(tx, loc.document_id, pid, prac_id, rel_type)
                THEN LinkCount(db', pid, prac_id, rel_type)
                        = LinkCount(db, pid, prac_id, rel_type) + 1
                ELSE LinkRows(db', pid, prac_id, rel_type)
                        = LinkRows(db, pid, prac_id, rel_type)]_vars

\* A document of two patients has been committed: each is linked to the
\* practitioner of the patient's page, and the practitioner of the page
\* without patient, though in the table, has no link
C23_Witness ==
    /\ pc = "scan"
    /\ loc.state = "committed"
    /\ Cardinality(PatientsOfRows(db, loc.document_id)) = 2
    /\ \A pid \in PatientsOfRows(db, loc.document_id) :
          \E l \in db.patient_practitioners : l.patient_id = pid
    /\ \E e \in ExtractionsOf(db, loc.document_id) :
          /\ e.practitioner_id # NoId
          /\ e.patient_id = NoId
          /\ \A l \in db.patient_practitioners : l.practitioner_id # e.practitioner_id

-----------------------------------------------------------------------------
(* C27 *)

\* The row names a patient and carries no date of birth
UndatedObservation(e) ==
    ~Unresolvable(e.patient_full_name) /\ ~NonBlank(e.patient_date_of_birth)

\* C27: the pages of one document that name the same normalized patient name
\* without a date of birth all resolve to the same patient.
C27_OneNameOnePatient ==
    \A e1, e2 \in db.extractions :
       (/\ e1.document_id = e2.document_id
        /\ UndatedObservation(e1)
        /\ UndatedObservation(e2)
        /\ normalize_name(e1.patient_full_name) = normalize_name(e2.patient_full_name))
          => e1.patient_id = e2.patient_id

\* The same for a name of which the table holds no more than two rows: the
\* pages found no row or one row of the name when the document was ingested
OneNameOnePatientUnlessAmbiguous ==
    \A e1, e2 \in db.extractions :
       (/\ e1.document_id = e2.document_id
        /\ UndatedObservation(e1)
        /\ UndatedObservation(e2)
        /\ normalize_name(e1.patient_full_name) = normalize_name(e2.patient_full_name)
        /\ Cardinality(PatientsNamed(db, normalize_name(e1.patient_full_name))) <= 2)
          => e1.patient_id = e2.patient_id

-----------------------------------------------------------------------------
(* C28 *)

\* C28: every patient_practitioners row of relationship_type "GP" refers to
\* a practitioner of type GP, and every row of relationship_type "Consultant"
\* to a practitioner of type Consultant.
C28_RelationshipMatchesType ==
    \A l \in db.patient_practitioners :
       /\ l.practitioner_id \in DOMAIN db.practitioners
       /\ db.practitioners[l.practitioner_id].type = l.relationship_type

\* What the relationship type does follow, seen while no file has been
\* rewritten: the category of a page of the practitioner, "Consultant" for
\* specialist pages and "GP" for all others
RelationshipFollowsCategory ==
    edits = 0 =>
    \A l \in db.patient_practitioners :
       \E e \in db.extractions :
          /\ e.practitioner_id = l.practitioner_id
          /\ RelationshipOf(e) = l.relationship_type

-----------------------------------------------------------------------------
(* C29 *)

\* Values of gp_name: none, blank, a doctor's name, and names that share a
\* word with a registry entry
OtherNames == NameHints \cup {sBlank, sWaysideSurgery, <<"D","r"," ">> \o sMenfield}

OnlyNameSupplied ==
    /\ TruthyStr(fzIn.gp_name)
    /\ fzIn.practice_hint = None
    /\ fzIn.address_hint = None
    /\ fzIn.patient_postcode = None

-----------------------------------------------------------------------------
(* C30 *)

\* C30: normalizing a normalized name gives the same name again:
\* normalize_name(normalize_name(x)) = normalize_name(x) for every name x, so
\* no normalized name begins with an honorific title that a second
\* normalization would strip.
C30_NormalizeIdempotent ==
    nmOut.done => normalize_name(nmOut.name_norm) = nmOut.name_norm

\* What one normalization does guarantee: a second one changes nothing but a
\* title left at the front
NormalizedTwiceDropsTitleOnly ==
    nmOut.done =>
        normalize_name(nmOut.name_norm) = strip(StripTitle(nmOut.name_norm))

=============================================================================
